---- MODULE Spec2Model ----
(***************************************************************************)
(* Model of apergos/watchlist-playtime.                                    *)
(*                                                                         *)
(*   merge.py                    MergeAdd.compare_fields, sum_fields and   *)
(*                               do_merge, stepped one loop iteration at a *)
(*                               time (SpecMerge), and compare_fields on   *)
(*                               its own (SpecCompare).                    *)
(*   dump_merge_watchlist_mlr.py WatchlistDumper.dump_watchlist and        *)
(*                               dump_merge_batch, stepped one statement   *)
(*                               with an external effect at a time (Spec). *)
(*                                                                         *)
(* A string is a sequence of one-character strings, so that parsing,       *)
(* formatting, splitting and joining are computed and not assumed.         *)
(* A text file is the sequence of its lines, each without its newline.     *)
(***************************************************************************)
EXTENDS Integers, Sequences, FiniteSets, TLC

\* ------------------------------------------------------------------------
\* Bounds of the model.

\* Longest input run handed to do_merge, in records.
MaxRunLen == 2

\* Largest wl_id of the watchlist table.
MaxId == 4

\* Largest --batchsize, the id span of one partition.
MaxSpan == 2

\* Largest file_batch_count, the fold-group size handed to dump_merge_batch.
MaxCount == 3

\* Largest maxtries handed to run_without_output.
MaxTries == 3

\* ------------------------------------------------------------------------
\* Python strings.

TAB == "\t"

Digits == {"0", "1", "2", "3", "4", "5", "6", "7", "8", "9"}

\* Code point of a character: the order Python's < on str uses.
Code(c) ==
    CASE c = "\t" -> 9
      [] c = "-" -> 45
      [] c = "0" -> 48
      [] c = "1" -> 49
      [] c = "2" -> 50
      [] c = "3" -> 51
      [] c = "4" -> 52
      [] c = "5" -> 53
      [] c = "6" -> 54
      [] c = "7" -> 55
      [] c = "8" -> 56
      [] c = "9" -> 57
      [] c = "a" -> 97
      [] c = "b" -> 98
      [] c = "p" -> 112
      [] c = "q" -> 113
      [] c = "x" -> 120

\* s < t for two str values: code point by code point, a proper prefix first.
RECURSIVE StrLess(_, _)
StrLess(s, t) ==
    IF t = <<>> THEN FALSE
    ELSE IF s = <<>> THEN TRUE
    ELSE IF Code(Head(s)) < Code(Head(t)) THEN TRUE
    ELSE IF Code(Head(s)) > Code(Head(t)) THEN FALSE
    ELSE StrLess(Tail(s), Tail(t))

AllDigits(s) == \A i \in 1..Len(s) : s[i] \in Digits

\* int(s) succeeds: an optional sign, then at least one decimal digit.
IsInt(s) ==
    IF s # <<>> /\ Head(s) = "-"
    THEN Len(s) > 1 /\ AllDigits(Tail(s))
    ELSE Len(s) > 0 /\ AllDigits(s)

RECURSIVE DigitsVal(_)
DigitsVal(s) ==
    IF s = <<>> THEN 0
    ELSE 10 * DigitsVal(SubSeq(s, 1, Len(s) - 1)) + (Code(s[Len(s)]) - 48)

\* int(s), for s with IsInt(s).
IntVal(s) ==
    IF Head(s) = "-" THEN 0 - DigitsVal(Tail(s)) ELSE DigitsVal(s)

DigitChar(d) ==
    CASE d = 0 -> "0" [] d = 1 -> "1" [] d = 2 -> "2" [] d = 3 -> "3"
      [] d = 4 -> "4" [] d = 5 -> "5" [] d = 6 -> "6" [] d = 7 -> "7"
      [] d = 8 -> "8" [] d = 9 -> "9"

RECURSIVE NatToStr(_)
NatToStr(n) ==
    IF n < 10 THEN <<DigitChar(n)>>
    ELSE Append(NatToStr(n \div 10), DigitChar(n % 10))

\* str(n) for an int n.
IntToStr(n) == IF n < 0 THEN <<"-">> \o NatToStr(0 - n) ELSE NatToStr(n)

\* line.split('\t'): always at least one field.
RECURSIVE Split(_)
Split(line) ==
    IF \A i \in 1..Len(line) : line[i] # TAB THEN <<line>>
    ELSE LET k == CHOOSE i \in 1..Len(line) :
                      line[i] = TAB /\ \A j \in 1..(i - 1) : line[j] # TAB
         IN  <<SubSeq(line, 1, k - 1)>> \o Split(SubSeq(line, k + 1, Len(line)))

\* '\t'.join(fields)
RECURSIVE Join(_)
Join(fields) ==
    IF fields = <<>> THEN <<>>
    ELSE IF Len(fields) = 1 THEN fields[1]
    ELSE fields[1] \o <<TAB>> \o Join(Tail(fields))

\* ------------------------------------------------------------------------
\* Results of a Python call: a value, or the exception that left it.

Ret(v) == [exc |-> "none", val |-> v]
Raise(e) == [exc |-> e, val |-> 0]

\* fields[index], zero-based, is there.
HasField(fields, index) == index + 1 <= Len(fields)

\* ------------------------------------------------------------------------
\* MergeAdd.compare_fields

\* compare_strkeys without lines 173-176: records with equal keys compare
\* equal whatever their field counts.  UnequalCountsOrdered fails with it.
RECURSIVE compare_strkeys_no_count(_, _, _, _)
compare_strkeys_no_count(sk, k, one_fields, two_fields) ==
    IF k > Len(sk) THEN Ret(0)
    ELSE IF ~HasField(one_fields, sk[k]) \/ ~HasField(two_fields, sk[k])
    THEN Raise("IndexError")
    ELSE IF StrLess(one_fields[sk[k] + 1], two_fields[sk[k] + 1]) THEN Ret(-1)
    ELSE IF StrLess(two_fields[sk[k] + 1], one_fields[sk[k] + 1]) THEN Ret(1)
    ELSE compare_strkeys_no_count(sk, k + 1, one_fields, two_fields)

\* The loop over self.strkeys, from its k-th entry on, then the field counts.
RECURSIVE compare_strkeys(_, _, _, _)
compare_strkeys(sk, k, one_fields, two_fields) ==
    IF k > Len(sk)
    THEN IF Len(one_fields) > Len(two_fields) THEN Ret(1)
         ELSE IF Len(one_fields) < Len(two_fields) THEN Ret(-1)
         ELSE Ret(0)
    ELSE IF ~HasField(one_fields, sk[k]) \/ ~HasField(two_fields, sk[k])
    THEN Raise("IndexError")
    ELSE IF StrLess(one_fields[sk[k] + 1], two_fields[sk[k] + 1]) THEN Ret(-1)
    ELSE IF StrLess(two_fields[sk[k] + 1], one_fields[sk[k] + 1]) THEN Ret(1)
    ELSE compare_strkeys(sk, k + 1, one_fields, two_fields)

\* compare_intkeys without the int() of lines 163 and 165: the integer keys
\* are compared as strings.  MergeOutputSorted and CompareIsTotalOrder fail
\* with it.
RECURSIVE compare_intkeys_as_strings(_, _, _, _, _)
compare_intkeys_as_strings(ik, sk, k, one_fields, two_fields) ==
    IF k > Len(ik) THEN compare_strkeys(sk, 1, one_fields, two_fields)
    ELSE IF ~HasField(one_fields, ik[k]) \/ ~HasField(two_fields, ik[k])
    THEN Raise("IndexError")
    ELSE IF StrLess(one_fields[ik[k] + 1], two_fields[ik[k] + 1]) THEN Ret(-1)
    ELSE IF StrLess(two_fields[ik[k] + 1], one_fields[ik[k] + 1]) THEN Ret(1)
    ELSE compare_intkeys_as_strings(ik, sk, k + 1, one_fields, two_fields)

\* The loop over self.intkeys, from its k-th entry on, then the rest.
RECURSIVE compare_intkeys(_, _, _, _, _)
compare_intkeys(ik, sk, k, one_fields, two_fields) ==
    IF k > Len(ik) THEN compare_strkeys(sk, 1, one_fields, two_fields)
    ELSE IF ~HasField(one_fields, ik[k]) THEN Raise("IndexError")
    ELSE IF ~IsInt(one_fields[ik[k] + 1]) THEN Raise("ValueError")
    ELSE IF ~HasField(two_fields, ik[k]) THEN Raise("IndexError")
    ELSE IF ~IsInt(two_fields[ik[k] + 1]) THEN Raise("ValueError")
    ELSE IF IntVal(one_fields[ik[k] + 1]) < IntVal(two_fields[ik[k] + 1]) THEN Ret(-1)
    ELSE IF IntVal(one_fields[ik[k] + 1]) > IntVal(two_fields[ik[k] + 1]) THEN Ret(1)
    ELSE compare_intkeys(ik, sk, k + 1, one_fields, two_fields)

compare_fields(ik, sk, one_fields, two_fields) ==
    compare_intkeys(ik, sk, 1, one_fields, two_fields)

\* ------------------------------------------------------------------------
\* MergeAdd.sum_fields.  whine() writes its message and leaves through
\* sys.exit(1): SystemExit, with the condition that was reported.

\* sum_loop with a value that does not parse counted as 0 instead of being
\* reported.  BadSumAborts fails with it.
RECURSIVE sum_loop_coerce(_, _, _, _)
sum_loop_coerce(sm, k, infields, to_add_fields) ==
    IF k > Len(sm) THEN Ret(infields)
    ELSE IF ~HasField(infields, sm[k]) \/ ~HasField(to_add_fields, sm[k])
    THEN Raise("IndexError")
    ELSE sum_loop_coerce(sm, k + 1,
             [infields EXCEPT ![sm[k] + 1] =
                  IntToStr((IF IsInt(infields[sm[k] + 1])
                            THEN IntVal(infields[sm[k] + 1]) ELSE 0)
                           + (IF IsInt(to_add_fields[sm[k] + 1])
                              THEN IntVal(to_add_fields[sm[k] + 1]) ELSE 0))],
             to_add_fields)

\* The loop over self.sums, from its k-th entry on.
RECURSIVE sum_loop(_, _, _, _)
sum_loop(sm, k, infields, to_add_fields) ==
    IF k > Len(sm) THEN Ret(infields)
    ELSE IF ~HasField(infields, sm[k]) THEN Raise("IndexError")
    ELSE IF ~IsInt(infields[sm[k] + 1]) THEN Raise("NonNumericSumField")
    ELSE IF ~HasField(to_add_fields, sm[k]) THEN Raise("IndexError")
    ELSE IF ~IsInt(to_add_fields[sm[k] + 1]) THEN Raise("NonNumericSumField")
    ELSE sum_loop(sm, k + 1,
                  [infields EXCEPT ![sm[k] + 1] =
                       IntToStr(IntVal(infields[sm[k] + 1])
                                + IntVal(to_add_fields[sm[k] + 1]))],
                  to_add_fields)

\* sum_fields returning its first list as it is, the loop of lines 192-197
\* left out: what the second record counts is lost.  SumsConserved fails with
\* it.
sum_fields_unsummed(sm, infields, to_add_fields) ==
    IF Len(infields) # Len(to_add_fields) THEN Raise("FieldCountMismatch")
    ELSE Ret(infields)

sum_fields(sm, infields, to_add_fields) ==
    IF Len(infields) # Len(to_add_fields) THEN Raise("FieldCountMismatch")
    ELSE sum_loop(sm, 1, infields, to_add_fields)

\* ------------------------------------------------------------------------
\* The total order of the data model, stated on its own: intKeys in listed
\* order as integers, then strKeys in listed order as strings, then the field
\* count.  Runs are defined by it and the claims are stated with it.

\* Every key position is a field of the record and every intKey parses.
WellKeyed(ik, sk, r) ==
    /\ \A k \in 1..Len(ik) : HasField(r, ik[k]) /\ IsInt(r[ik[k] + 1])
    /\ \A k \in 1..Len(sk) : HasField(r, sk[k])

IntKeyOf(ik, r) == [k \in 1..Len(ik) |-> IntVal(r[ik[k] + 1])]
StrKeyOf(sk, r) == [k \in 1..Len(sk) |-> r[sk[k] + 1]]

SameKey(ik, sk, a, b) ==
    IntKeyOf(ik, a) = IntKeyOf(ik, b) /\ StrKeyOf(sk, a) = StrKeyOf(sk, b)

\* a comes strictly before b.
Before(ik, sk, a, b) ==
    LET ia == IntKeyOf(ik, a)  ib == IntKeyOf(ik, b)
        sa == StrKeyOf(sk, a)  sb == StrKeyOf(sk, b)
    IN  \/ \E k \in 1..Len(ik) :
              ia[k] < ib[k] /\ \A j \in 1..(k - 1) : ia[j] = ib[j]
        \/ /\ ia = ib
           /\ \E k \in 1..Len(sk) :
                 StrLess(sa[k], sb[k]) /\ \A j \in 1..(k - 1) : sa[j] = sb[j]
        \/ /\ ia = ib /\ sa = sb /\ Len(a) < Len(b)

TotalOrder(ik, sk, a, b) ==
    IF Before(ik, sk, a, b) THEN -1 ELSE IF Before(ik, sk, b, a) THEN 1 ELSE 0

\* Merge-equal: every key field identical and the field counts match.
MergeEqual(ik, sk, a, b) == SameKey(ik, sk, a, b) /\ Len(a) = Len(b)

\* The records of a file.
RecordsIn(lines) == [i \in 1..Len(lines) |-> Split(lines[i])]

\* Sorted by the total order.
Sorted(ik, sk, recs) ==
    \A i \in 1..(Len(recs) - 1) : ~Before(ik, sk, recs[i + 1], recs[i])

\* ------------------------------------------------------------------------
\* State.

VARIABLES
    \* MergeAdd: self.intkeys, self.strkeys, self.sums (zero-based positions)
    intkeys, strkeys, sums,
    \* the two input files of do_merge and how many lines of each were read
    have_file, to_merge_file, have_pos, to_merge_pos,
    \* the lines written to the output file of do_merge
    output,
    \* locals of do_merge
    have_fields, to_merge_fields, have_line, to_merge_line, result,
    \* where do_merge is, and the exception that ended it ("none" if none)
    pc, exc,
    \* the watchlist table: table[id] is the (namespace, title) of row id
    table,
    \* the page table: the (namespace, title) pairs of the pages that exist
    page,
    \* arguments of the pipeline: --dryrun, file_batch_count, --batchsize
    dryrun, file_batch_count, batchsize,
    \* the files of the temp directory and the output path
    files,
    \* locals of dump_watchlist
    maxid, startrow,
    \* locals of dump_merge_batch: its startrow parameter, index, end
    b_startrow, index, end,
    \* where the pipeline is, and the exception that ended it ("none" if none)
    wpc, werr,
    \* history: the id ranges fetched so far, and for the current call of
    \* dump_merge_batch its first row and the number of partitions it fetched
    fetched, batch_first, batch_fetched,
    \* history: what the run did outside the process, and what a dry run
    \* printed in its place
    executed, printed,
    \* run_without_output: its arguments command and maxtries, its locals
    \* tries, success, returncode and error, where it is, how it ended, the
    \* message of its BackupError, and the return codes of its attempts so far
    command, maxtries, tries, success, returncode, error, rpc, rexc, message,
    attempts,
    \* three runs, and what folding them gives: do_merge(do_merge(p1, p2), p3)
    \* and do_merge(p1, do_merge(p2, p3))
    p1, p2, p3, left_fold, right_fold, fpc,
    \* two runs of the script at once with the same wiki and the same temp
    \* directory: for each of them its dryrun flag, the locals of
    \* dump_watchlist and dump_merge_batch, where it is, how it ended, the
    \* ranges it fetched, what it did or printed, and what it delivered
    inst

merge_vars == <<intkeys, strkeys, sums, have_file, to_merge_file, have_pos,
                to_merge_pos, output, have_fields, to_merge_fields, have_line,
                to_merge_line, result, pc, exc>>

dump_vars == <<table, page, dryrun, file_batch_count, batchsize, files, maxid,
               startrow, b_startrow, index, end, wpc, werr, fetched,
               batch_first, batch_fetched, executed, printed>>

run_vars == <<command, maxtries, tries, success, returncode, error, rpc, rexc,
              message, attempts>>

fold_vars == <<p1, p2, p3, left_fold, right_fold, fpc>>

two_vars == <<inst>>

vars == <<merge_vars, dump_vars, run_vars, fold_vars, two_vars>>

\* ------------------------------------------------------------------------
\* Inputs of the merge model.

S(c) == <<c>>

\* Field-role assignments: (namespace, title, count) as the watchlist dump
\* has it, and a single string key with nothing to sum.
KeyedRoles == [intkeys |-> <<0>>, strkeys |-> <<1>>, sums |-> <<2>>]
TitleRoles == [intkeys |-> <<>>, strkeys |-> <<0>>, sums |-> <<>>]

MergeRoles == {KeyedRoles, TitleRoles}

KeyedRecords ==
    { <<S("9"), S("a"), S("1")>>,
      <<S("9"), S("a"), S("2")>>,
      <<S("9"), S("b"), <<"-", "1">>>>,
      <<<<"1", "0">>, S("a"), S("1")>>,
      <<<<"0", "9">>, S("a"), S("9")>>,
      <<S("9"), S("b"), S("x")>>,
      <<S("9"), S("a")>>,
      <<S("9"), S("b")>> }

TitleRecords ==
    { <<<<>>>>, <<S("a")>>, <<S("b")>>,
      <<S("a"), S("p")>>, <<S("a"), S("q")>>, <<S("b"), S("p")>> }

RecordsOf(roles) == IF roles = KeyedRoles THEN KeyedRecords ELSE TitleRecords

\* A Run: every record has the same field count and the records are in the
\* total order of compare_fields.
IsRun(ik, sk, lines) ==
    /\ \A i \in 1..Len(lines) :
           /\ WellKeyed(ik, sk, Split(lines[i]))
           /\ Len(Split(lines[i])) = Len(Split(lines[1]))
    /\ Sorted(ik, sk, RecordsIn(lines))

RunsOf(roles) ==
    { lines \in UNION { [1..n -> { Join(r) : r \in RecordsOf(roles) }] :
                        n \in 0..MaxRunLen } :
        IsRun(roles.intkeys, roles.strkeys, lines) }

\* ------------------------------------------------------------------------
\* MergeAdd.do_merge

\* file.readline().rstrip('\n'): the next line, or '' at the end of the file.
readline(file, pos) == IF pos < Len(file) THEN file[pos + 1] ELSE <<>>

advance(file, pos) == IF pos < Len(file) THEN pos + 1 ELSE pos

EOF_FIELDS == <<<<>>>>

\* The pipeline is not part of this specification.
DumpIdle ==
    /\ table = <<>>
    /\ page = {}
    /\ dryrun = FALSE
    /\ file_batch_count = 0
    /\ batchsize = 0
    /\ files = <<>>
    /\ maxid = 0
    /\ startrow = 0
    /\ b_startrow = 0
    /\ index = 0
    /\ end = 0
    /\ wpc = "idle"
    /\ werr = "none"
    /\ fetched = <<>>
    /\ batch_first = 0
    /\ batch_fetched = 0
    /\ executed = <<>>
    /\ printed = <<>>

\* run_without_output is not part of this specification.
RunIdle ==
    /\ command = ""
    /\ maxtries = 0
    /\ tries = 0
    /\ success = FALSE
    /\ returncode = <<>>
    /\ error = <<>>
    /\ rpc = "idle"
    /\ rexc = "none"
    /\ message = <<>>
    /\ attempts = <<>>

\* The folding of three runs is not part of this specification.
FoldIdle ==
    /\ p1 = <<>>
    /\ p2 = <<>>
    /\ p3 = <<>>
    /\ left_fold = <<>>
    /\ right_fold = <<>>
    /\ fpc = "idle"

\* There is no second run of the script in this specification.
TwoIdle == inst = <<>>

MergeInit ==
    /\ DumpIdle
    /\ RunIdle
    /\ FoldIdle
    /\ TwoIdle
    /\ \E roles \in MergeRoles :
          /\ intkeys = roles.intkeys
          /\ strkeys = roles.strkeys
          /\ sums = roles.sums
          /\ have_file \in RunsOf(roles)
          /\ to_merge_file \in RunsOf(roles)
    /\ have_pos = 0
    /\ to_merge_pos = 0
    /\ output = <<>>
    /\ have_fields = <<>>
    /\ to_merge_fields = <<>>
    /\ have_line = <<>>
    /\ to_merge_line = <<>>
    /\ result = 0
    /\ pc = "start"
    /\ exc = "none"

\* lines 204-205
MergeOpen ==
    /\ pc = "start"
    /\ have_fields' = Split(readline(have_file, have_pos))
    /\ have_pos' = advance(have_file, have_pos)
    /\ to_merge_fields' = Split(readline(to_merge_file, to_merge_pos))
    /\ to_merge_pos' = advance(to_merge_file, to_merge_pos)
    /\ pc' = "loop"
    /\ UNCHANGED <<dump_vars, run_vars, fold_vars, two_vars>>
    /\ UNCHANGED <<intkeys, strkeys, sums, have_file, to_merge_file, output,
                   have_line, to_merge_line, result, exc>>

\* do_merge without the assignment of line 209: the record of the second
\* input is read over and its sums are lost.  MergeIsThreeStepOfGroupedSecond
\* fails with it.
MergeIterate_drops_sum ==
    /\ pc = "loop"
    /\ have_fields # EOF_FIELDS /\ to_merge_fields # EOF_FIELDS
    /\ LET r == compare_fields(intkeys, strkeys, have_fields, to_merge_fields)
           s == sum_fields(sums, have_fields, to_merge_fields)
       IN  IF r.exc # "none"
           THEN /\ pc' = "raised" /\ exc' = r.exc
                /\ UNCHANGED <<have_fields, to_merge_fields, have_pos,
                               to_merge_pos, output, result>>
           ELSE /\ result' = r.val
                /\ IF r.val = 0
                   THEN IF s.exc # "none"
                        THEN /\ pc' = IF s.exc = "IndexError" THEN "raised" ELSE "exited"
                             /\ exc' = s.exc
                             /\ UNCHANGED <<have_fields, to_merge_fields, have_pos,
                                            to_merge_pos, output>>
                        ELSE /\ have_fields' = have_fields
                             /\ to_merge_fields' =
                                    Split(readline(to_merge_file, to_merge_pos))
                             /\ to_merge_pos' = advance(to_merge_file, to_merge_pos)
                             /\ UNCHANGED <<have_pos, output, pc, exc>>
                   ELSE IF r.val < 0
                   THEN /\ output' = Append(output, Join(have_fields))
                        /\ have_fields' = Split(readline(have_file, have_pos))
                        /\ have_pos' = advance(have_file, have_pos)
                        /\ UNCHANGED <<to_merge_fields, to_merge_pos, pc, exc>>
                   ELSE /\ output' = Append(output, Join(to_merge_fields))
                        /\ to_merge_fields' =
                               Split(readline(to_merge_file, to_merge_pos))
                        /\ to_merge_pos' = advance(to_merge_file, to_merge_pos)
                        /\ UNCHANGED <<have_fields, have_pos, pc, exc>>
    /\ UNCHANGED <<dump_vars, run_vars, fold_vars, two_vars>>
    /\ UNCHANGED <<intkeys, strkeys, sums, have_file, to_merge_file,
                   have_line, to_merge_line>>

\* lines 206-216: one iteration of the first loop
MergeIterate ==
    /\ pc = "loop"
    /\ have_fields # EOF_FIELDS /\ to_merge_fields # EOF_FIELDS
    /\ LET r == compare_fields(intkeys, strkeys, have_fields, to_merge_fields)
           s == sum_fields(sums, have_fields, to_merge_fields)
       IN  IF r.exc # "none"
           THEN /\ pc' = "raised" /\ exc' = r.exc
                /\ UNCHANGED <<have_fields, to_merge_fields, have_pos,
                               to_merge_pos, output, result>>
           ELSE /\ result' = r.val
                /\ IF r.val = 0
                   THEN IF s.exc # "none"
                        THEN /\ pc' = IF s.exc = "IndexError" THEN "raised" ELSE "exited"
                             /\ exc' = s.exc
                             /\ UNCHANGED <<have_fields, to_merge_fields, have_pos,
                                            to_merge_pos, output>>
                        ELSE /\ have_fields' = s.val
                             /\ to_merge_fields' =
                                    Split(readline(to_merge_file, to_merge_pos))
                             /\ to_merge_pos' = advance(to_merge_file, to_merge_pos)
                             /\ UNCHANGED <<have_pos, output, pc, exc>>
                   ELSE IF r.val < 0
                   THEN /\ output' = Append(output, Join(have_fields))
                        /\ have_fields' = Split(readline(have_file, have_pos))
                        /\ have_pos' = advance(have_file, have_pos)
                        /\ UNCHANGED <<to_merge_fields, to_merge_pos, pc, exc>>
                   ELSE /\ output' = Append(output, Join(to_merge_fields))
                        /\ to_merge_fields' =
                               Split(readline(to_merge_file, to_merge_pos))
                        /\ to_merge_pos' = advance(to_merge_file, to_merge_pos)
                        /\ UNCHANGED <<have_fields, have_pos, pc, exc>>
    /\ UNCHANGED <<dump_vars, run_vars, fold_vars, two_vars>>
    /\ UNCHANGED <<intkeys, strkeys, sums, have_file, to_merge_file,
                   have_line, to_merge_line>>

\* lines 206, 219-220: the first loop ends
MergeLoopExit ==
    /\ pc = "loop"
    /\ have_fields = EOF_FIELDS \/ to_merge_fields = EOF_FIELDS
    /\ have_line' = Join(have_fields)
    /\ to_merge_line' = Join(to_merge_fields)
    /\ pc' = "drain_have"
    /\ UNCHANGED <<dump_vars, run_vars, fold_vars, two_vars>>
    /\ UNCHANGED <<intkeys, strkeys, sums, have_file, to_merge_file, have_pos,
                   to_merge_pos, output, have_fields, to_merge_fields, result, exc>>

\* lines 221-223
DrainHave ==
    /\ pc = "drain_have"
    /\ have_line # <<>>
    /\ output' = Append(output, have_line)
    /\ have_line' = readline(have_file, have_pos)
    /\ have_pos' = advance(have_file, have_pos)
    /\ UNCHANGED <<dump_vars, run_vars, fold_vars, two_vars>>
    /\ UNCHANGED <<intkeys, strkeys, sums, have_file, to_merge_file, to_merge_pos,
                   have_fields, to_merge_fields, to_merge_line, result, pc, exc>>

DrainHaveDone ==
    /\ pc = "drain_have"
    /\ have_line = <<>>
    /\ pc' = "drain_to_merge"
    /\ UNCHANGED <<dump_vars, run_vars, fold_vars, two_vars>>
    /\ UNCHANGED <<intkeys, strkeys, sums, have_file, to_merge_file, have_pos,
                   to_merge_pos, output, have_fields, to_merge_fields, have_line,
                   to_merge_line, result, exc>>

\* lines 224-226
DrainToMerge ==
    /\ pc = "drain_to_merge"
    /\ to_merge_line # <<>>
    /\ output' = Append(output, to_merge_line)
    /\ to_merge_line' = readline(to_merge_file, to_merge_pos)
    /\ to_merge_pos' = advance(to_merge_file, to_merge_pos)
    /\ UNCHANGED <<dump_vars, run_vars, fold_vars, two_vars>>
    /\ UNCHANGED <<intkeys, strkeys, sums, have_file, to_merge_file, have_pos,
                   have_fields, to_merge_fields, have_line, result, pc, exc>>

DrainToMergeDone ==
    /\ pc = "drain_to_merge"
    /\ to_merge_line = <<>>
    /\ pc' = "returned"
    /\ UNCHANGED <<dump_vars, run_vars, fold_vars, two_vars>>
    /\ UNCHANGED <<intkeys, strkeys, sums, have_file, to_merge_file, have_pos,
                   to_merge_pos, output, have_fields, to_merge_fields, have_line,
                   to_merge_line, result, exc>>

do_merge ==
    \/ MergeOpen
    \/ MergeIterate
    \/ MergeLoopExit
    \/ DrainHave
    \/ DrainHaveDone
    \/ DrainToMerge
    \/ DrainToMergeDone

SpecMerge == MergeInit /\ [][do_merge]_vars

\* ------------------------------------------------------------------------
\* Properties of do_merge.

InA == RecordsIn(have_file)
InB == RecordsIn(to_merge_file)
Inputs == InA \o InB
Written == RecordsIn(output)

SameKeyNow(a, b) == SameKey(intkeys, strkeys, a, b)

\* How many times a line occurs in a file.
Occurrences(lines, line) == Cardinality({ i \in 1..Len(lines) : lines[i] = line })

\* No key occurs twice in the run.
KeyGrouped(recs) ==
    \A i, j \in 1..Len(recs) : i # j => ~SameKeyNow(recs[i], recs[j])

\* Every sum position is a field of the record and parses as an integer.
SumsParse(r) ==
    \A k \in 1..Len(sums) : HasField(r, sums[k]) /\ IsInt(r[sums[k] + 1])

\* The total of sum field s over the records of recs with the key of r.
RECURSIVE TotalOf(_, _, _)
TotalOf(recs, r, s) ==
    IF recs = <<>> THEN 0
    ELSE (IF SameKeyNow(Head(recs), r) THEN IntVal(Head(recs)[s + 1]) ELSE 0)
         + TotalOf(Tail(recs), r, s)

\* C1: the run written by do_merge(A, B) for sorted runs A and B is sorted
\* by the total order.
MergeOutputSorted ==
    pc = "returned" => Sorted(intkeys, strkeys, Written)

\* Both inputs had two records, two of them were summed, three were written.
MergeOutputSortedWitness ==
    /\ pc = "returned"
    /\ Len(have_file) = 2 /\ Len(to_merge_file) = 2
    /\ Len(output) = 3
    /\ \E i \in 1..2 : Written[i] \notin { InA[1], InA[2], InB[1], InB[2] }

\* C2: the output of do_merge(A, B) holds exactly one record for each key
\* occurring in A or B, and each of its sum fields is the total of that field
\* over the records of A and B with that key.
OneRecordPerKeyWithTotals ==
    pc = "returned" =>
        /\ \A i \in 1..Len(Inputs) :
               Cardinality({ j \in 1..Len(Written) :
                               SameKeyNow(Written[j], Inputs[i]) }) = 1
        /\ \A j \in 1..Len(Written) :
               \E i \in 1..Len(Inputs) : SameKeyNow(Written[j], Inputs[i])
        /\ \A j \in 1..Len(Written) : \A k \in 1..Len(sums) :
               (\A i \in 1..Len(Inputs) :
                    SameKeyNow(Written[j], Inputs[i]) => SumsParse(Inputs[i]))
               => /\ SumsParse(Written[j])
                  /\ IntVal(Written[j][sums[k] + 1])
                         = TotalOf(Inputs, Written[j], sums[k])

\* C4: do_merge(A, empty) and do_merge(empty, A) write exactly the lines of
\* A, and an input without records ends the run without an error.
MergeWithEmptyIsIdentity ==
    /\ (have_file = <<>> \/ to_merge_file = <<>>) => pc \notin {"raised", "exited"}
    /\ pc = "returned" =>
          /\ to_merge_file = <<>> => output = have_file
          /\ have_file = <<>> => output = to_merge_file

\* C5: for key-grouped runs A and B without a common key the output is the
\* sorted interleaving of the lines of A and B, each exactly once, unchanged.
DisjointMergeInterleaves ==
    ( /\ pc = "returned"
      /\ KeyGrouped(InA) /\ KeyGrouped(InB)
      /\ \A i \in 1..Len(InA) : \A j \in 1..Len(InB) : ~SameKeyNow(InA[i], InB[j]) )
    => /\ Sorted(intkeys, strkeys, Written)
       /\ Len(output) = Len(have_file) + Len(to_merge_file)
       /\ \A i \in 1..Len(output) :
              Occurrences(output, output[i])
                  = Occurrences(have_file, output[i])
                    + Occurrences(to_merge_file, output[i])

\* The merge-equal pairs (a in A, b in B).
EqualPairs ==
    { pr \in (1..Len(InA)) \X (1..Len(InB)) :
        MergeEqual(intkeys, strkeys, InA[pr[1]], InB[pr[2]]) }

\* a with every sum position replaced by int(a[i]) + int(b[i]).
SummedRecord(a, b) ==
    [p \in 1..Len(a) |->
        IF \E k \in 1..Len(sums) : sums[k] + 1 = p
        THEN IntToStr(IntVal(a[p]) + IntVal(b[p]))
        ELSE a[p]]

\* C6: when A and B share exactly one merge-equal pair (a, b), the output has
\* a single record with that key: a, with each sum position holding
\* int(a[i]) + int(b[i]).
SinglePairSummed ==
    (pc = "returned" /\ Cardinality(EqualPairs) = 1) =>
        LET pr == CHOOSE q \in EqualPairs : TRUE
            a == InA[pr[1]]
            b == InB[pr[2]]
        IN  (SumsParse(a) /\ SumsParse(b)) =>
                /\ Cardinality({ j \in 1..Len(Written) :
                                   SameKeyNow(Written[j], a) }) = 1
                /\ \A j \in 1..Len(Written) :
                       SameKeyNow(Written[j], a) => Written[j] = SummedRecord(a, b)

\* One pair was summed into a record that differs from both of its inputs,
\* and other records were written around it.
SinglePairSummedWitness ==
    /\ pc = "returned"
    /\ Cardinality(EqualPairs) = 1
    /\ sums # <<>>
    /\ Len(output) = 3
    /\ LET pr == CHOOSE q \in EqualPairs : TRUE
       IN  /\ InA[pr[1]][1] # InB[pr[2]][1]
           /\ \E j \in 1..Len(Written) :
                  /\ SameKeyNow(Written[j], InA[pr[1]])
                  /\ Written[j] # InA[pr[1]] /\ Written[j] # InB[pr[2]]

\* The current records have the same key and different field counts.
UnequalCountsMeet ==
    /\ pc = "loop"
    /\ have_fields # EOF_FIELDS /\ to_merge_fields # EOF_FIELDS
    /\ SameKeyNow(have_fields, to_merge_fields)
    /\ Len(have_fields) # Len(to_merge_fields)

\* C7 as stated: when do_merge meets records with equal keys and different
\* field counts it fails with FieldCountMismatch and writes nothing for them.
FieldCountMismatchRaised ==
    [][ UnequalCountsMeet =>
            /\ pc' = "exited" /\ exc' = "FieldCountMismatch"
            /\ output' = output ]_vars

\* C7 as the code has it: such records are not merge-equal.  The shorter one
\* is written, the merge goes on, and FieldCountMismatch is never reported.
UnequalCountsOrdered ==
    [][ /\ exc' # "FieldCountMismatch"
        /\ UnequalCountsMeet =>
              /\ pc' = "loop" /\ exc' = "none"
              /\ output' = Append(output,
                     IF Len(have_fields) < Len(to_merge_fields)
                     THEN Join(have_fields) ELSE Join(to_merge_fields)) ]_vars

\* The shorter record of such a pair has just been written and the longer one
\* is still the current record of its input.
UnequalCountsWitness ==
    /\ pc = "loop"
    /\ output # <<>>
    /\ to_merge_fields # EOF_FIELDS
    /\ result = -1
    /\ SameKeyNow(Written[Len(output)], to_merge_fields)
    /\ Len(Written[Len(output)]) < Len(to_merge_fields)

\* Two merge-equal current records, one of which has a sum field that is
\* there and does not parse.
BadSumMeets ==
    /\ pc = "loop"
    /\ have_fields # EOF_FIELDS /\ to_merge_fields # EOF_FIELDS
    /\ MergeEqual(intkeys, strkeys, have_fields, to_merge_fields)
    /\ \A k \in 1..Len(sums) : HasField(have_fields, sums[k])
    /\ ~(SumsParse(have_fields) /\ SumsParse(to_merge_fields))

\* C9: summing two merge-equal records of which one has a sum field that is
\* not integer-parsable ends the merge with NonNumericSumField; no record
\* merge-equal to them has been written and nothing is written afterwards.
BadSumAborts ==
    [][ /\ BadSumMeets =>
              /\ pc' = "exited" /\ exc' = "NonNumericSumField"
              /\ output' = output
              /\ \A j \in 1..Len(Written) :
                     ~MergeEqual(intkeys, strkeys, Written[j], have_fields)
        /\ pc = "exited" => (pc' = "exited" /\ output' = output) ]_vars

BadSumWitness ==
    /\ pc = "exited" /\ exc = "NonNumericSumField"
    /\ MergeEqual(intkeys, strkeys, have_fields, to_merge_fields)
    /\ output # <<>>

\* ------------------------------------------------------------------------
\* What do_merge does keep of C2, C4, C5 and C6: they hold of runs without an
\* empty line, C2 moreover only of key-grouped runs of one field count.

NoEmptyLine ==
    /\ \A i \in 1..Len(have_file) : have_file[i] # <<>>
    /\ \A i \in 1..Len(to_merge_file) : to_merge_file[i] # <<>>

SameFieldCount ==
    \A i \in 1..Len(Inputs) : Len(Inputs[i]) = Len(Inputs[1])

OneRecordPerKeyOfGroupedRuns ==
    (NoEmptyLine /\ SameFieldCount /\ KeyGrouped(InA) /\ KeyGrouped(InB))
    => OneRecordPerKeyWithTotals

MergeWithEmptyOfFullLines == NoEmptyLine => MergeWithEmptyIsIdentity

DisjointMergeOfFullLines == NoEmptyLine => DisjointMergeInterleaves

SinglePairOfFullLines == NoEmptyLine => SinglePairSummed


\* ------------------------------------------------------------------------
\* Fields that are neither keys nor sums.

IsSumPosition(p) == \E k \in 1..Len(sums) : sums[k] + 1 = p

\* The two records have the same text in every field that is not a sum.
SameOutsideSums(a, b) ==
    /\ Len(a) = Len(b)
    /\ \A p \in 1..Len(a) : IsSumPosition(p) \/ a[p] = b[p]

\* A pass of the first loop that writes nothing: lines 208-210, the current
\* record of the second input is added into that of the first and dropped.
CombineStep == pc = "loop" /\ pc' = "loop" /\ output' = output

\* C20: do_merge combines two records only if they are the same in every
\* field that is not a sum, and of records that differ in such a field both
\* are written: every record read has a record in the output that is the same
\* outside the sums.
OnlyIdenticalRecordsCombined ==
    /\ [][CombineStep => SameOutsideSums(have_fields, to_merge_fields)]_vars
    /\ []((pc = "returned" /\ NoEmptyLine) =>
              \A i \in 1..Len(Inputs) :
                  \E j \in 1..Len(Written) : SameOutsideSums(Inputs[i], Written[j]))

\* What holds instead: the records combined agree in their key fields, as
\* integers at the integer keys, and in their field count.
OnlyMergeEqualRecordsCombined ==
    [][CombineStep => MergeEqual(intkeys, strkeys, have_fields, to_merge_fields)]_vars

\* ------------------------------------------------------------------------
\* do_merge against the merge that sums a merge-equal pair, writes the sum at
\* once and advances both inputs.

\* The merge of two sequences of lines in three steps: a record from each;
\* while both have one, the smaller is written and its input advanced, and
\* of a merge-equal pair the sum is written and both inputs advanced; then
\* the rest of the input that has records left is written as it is.
RECURSIVE three_step_merge(_, _, _, _, _, _)
three_step_merge(ik, sk, sm, a_lines, b_lines, written) ==
    IF a_lines = <<>> THEN Ret(written \o b_lines)
    ELSE IF b_lines = <<>> THEN Ret(written \o a_lines)
    ELSE LET a == Split(Head(a_lines))
             b == Split(Head(b_lines))
             r == compare_fields(ik, sk, a, b)
             s == sum_fields(sm, a, b)
         IN  IF r.exc # "none" THEN Raise(r.exc)
             ELSE IF r.val = 0
             THEN IF s.exc # "none" THEN Raise(s.exc)
                  ELSE three_step_merge(ik, sk, sm, Tail(a_lines), Tail(b_lines),
                                        Append(written, Join(s.val)))
             ELSE IF r.val < 0
             THEN three_step_merge(ik, sk, sm, Tail(a_lines), b_lines,
                                   Append(written, Head(a_lines)))
             ELSE three_step_merge(ik, sk, sm, a_lines, Tail(b_lines),
                                   Append(written, Head(b_lines)))

\* C24 as stated: for sorted runs A and B, do_merge writes what the
\* three-step merge of A and B writes.
MergeIsThreeStepMerge ==
    pc = "returned" =>
        LET m == three_step_merge(intkeys, strkeys, sums,
                                  have_file, to_merge_file, <<>>)
        IN  m.exc = "none" /\ m.val = output

\* The lines of a file that do_merge gets to see: readline().rstrip('\n') is
\* '' for an empty line as it is at the end of the file, and the tests of
\* lines 206, 221 and 224 take either for the end.
RECURSIVE as_read(_)
as_read(lines) ==
    IF lines = <<>> \/ Head(lines) = <<>> THEN <<>>
    ELSE <<Head(lines)>> \o as_read(Tail(lines))

\* C24, amended: do_merge writes what the three-step merge writes when no key
\* repeats inside the second run, each run taken as far as do_merge reads it.
\* (do_merge goes on adding the records of the second run that share a key
\* into one sum, where the three-step merge writes the second of them as it
\* is.)
MergeIsThreeStepOfGroupedSecond ==
    (pc = "returned" /\ KeyGrouped(RecordsIn(as_read(to_merge_file)))) =>
        LET m == three_step_merge(intkeys, strkeys, sums,
                                  as_read(have_file), as_read(to_merge_file), <<>>)
        IN  m.exc = "none" /\ m.val = output

\* Both runs had two records with no empty line, a pair of them was summed,
\* and the sum was written with the two other records.
MergeIsThreeStepWitness ==
    /\ pc = "returned"
    /\ NoEmptyLine
    /\ Len(have_file) = 2 /\ Len(to_merge_file) = 2
    /\ KeyGrouped(InB)
    /\ Cardinality(EqualPairs) = 1
    /\ Len(output) = 3
    /\ \E i \in 1..3 : output[i] \notin { have_file[1], have_file[2],
                                         to_merge_file[1], to_merge_file[2] }

\* C25: when do_merge returns, both inputs were read to their true end and
\* every record of theirs, whatever its content, was written or summed into
\* a written record: its key is the key of a record of the output.
AllRecordsConsumed ==
    pc = "returned" =>
        /\ have_pos = Len(have_file)
        /\ to_merge_pos = Len(to_merge_file)
        /\ \A i \in 1..Len(Inputs) :
               \E j \in 1..Len(Written) : SameKeyNow(Inputs[i], Written[j])

\* It is so when no record is the empty line.
AllRecordsOfFullLinesConsumed == NoEmptyLine => AllRecordsConsumed

\* The total of sum field s over all the records of recs.
RECURSIVE Total(_, _)
Total(recs, s) ==
    IF recs = <<>> THEN 0 ELSE IntVal(Head(recs)[s + 1]) + Total(Tail(recs), s)

\* The runs have sum fields, and every record an integer in each.
IntegerSums ==
    /\ sums # <<>>
    /\ \A i \in 1..Len(Inputs) : SumsParse(Inputs[i])

\* The sums of the output are those of the inputs, in all and key by key,
\* every written record has the key of an input record, and both inputs
\* were read to their end.
SumsTotalled ==
    (pc = "returned" /\ IntegerSums) =>
        /\ have_pos = Len(have_file)
        /\ to_merge_pos = Len(to_merge_file)
        /\ Len(Written) <= Len(Inputs)
        /\ \A j \in 1..Len(Written) :
               /\ SumsParse(Written[j])
               /\ \E i \in 1..Len(Inputs) : SameKeyNow(Inputs[i], Written[j])
        /\ \A k \in 1..Len(sums) :
               /\ Total(Written, sums[k]) = Total(Inputs, sums[k])
               /\ \A i \in 1..Len(Inputs) :
                      TotalOf(Written, Inputs[i], sums[k])
                          = TotalOf(Inputs, Inputs[i], sums[k])

\* The inputs are read forward, a line at a time, and what is written stays
\* written.
ReadForward ==
    /\ have_pos' \in {have_pos, have_pos + 1}
    /\ to_merge_pos' \in {to_merge_pos, to_merge_pos + 1}
    /\ Len(output') >= Len(output)
    /\ SubSeq(output', 1, Len(output)) = output

\* C26: for sorted runs A and B with integer sum fields, keys repeated inside
\* a run or not, the total of each sum field over the records do_merge writes
\* is the total over the records of A and B; each input record is read once
\* and is written as it is or added into one written record of its key.
SumsConserved == []SumsTotalled /\ [][ReadForward]_vars

\* A key repeats inside the first run and is in the second one too: one
\* record of the first run was summed with the one of the second, the other
\* was written as it is.
SumsConservedWitness ==
    /\ pc = "returned"
    /\ IntegerSums
    /\ Len(have_file) = 2 /\ Len(to_merge_file) = 1
    /\ SameKeyNow(InA[1], InA[2])
    /\ SameKeyNow(InA[1], InB[1])
    /\ Len(output) = 2

\* ------------------------------------------------------------------------
\* compare_fields on its own: one call on two records.

TwoIntRoles == [intkeys |-> <<1, 0>>, strkeys |-> <<>>, sums |-> <<2>>]
TwoStrRoles == [intkeys |-> <<>>, strkeys |-> <<1, 0>>, sums |-> <<>>]

CompareRoles == {KeyedRoles, TitleRoles, TwoIntRoles, TwoStrRoles}

IntFields == { S("9"), <<"1", "0">>, <<"0", "9">>, <<"-", "1">> }
StrFields == { <<>>, S("a"), <<"a", "b">>, S("b") }
SumFields == { S("1"), S("x") }

\* Records that hold every key position of the roles, with and without
\* fields after the keys.
CompareRecordsOf(roles) ==
    IF roles = KeyedRoles
    THEN { <<i, t>> : i \in IntFields, t \in StrFields }
         \cup { <<i, t, c>> : i \in IntFields, t \in StrFields, c \in SumFields }
    ELSE IF roles = TwoIntRoles
    THEN { <<i, j>> : i \in IntFields, j \in IntFields }
         \cup { <<i, j, c>> : i \in IntFields, j \in IntFields, c \in SumFields }
    ELSE IF roles = TwoStrRoles
    THEN { <<t, u>> : t \in StrFields, u \in StrFields }
         \cup { <<t, u, c>> : t \in StrFields, u \in StrFields, c \in SumFields }
    ELSE { <<t>> : t \in StrFields }
         \cup { <<t, c>> : t \in StrFields, c \in SumFields }

CompareInit ==
    /\ DumpIdle
    /\ RunIdle
    /\ FoldIdle
    /\ TwoIdle
    /\ \E roles \in CompareRoles :
          /\ intkeys = roles.intkeys
          /\ strkeys = roles.strkeys
          /\ sums = roles.sums
          /\ have_fields \in CompareRecordsOf(roles)
          /\ to_merge_fields \in CompareRecordsOf(roles)
    /\ have_file = <<>>
    /\ to_merge_file = <<>>
    /\ have_pos = 0
    /\ to_merge_pos = 0
    /\ output = <<>>
    /\ have_line = <<>>
    /\ to_merge_line = <<>>
    /\ result = 0
    /\ pc = "compare"
    /\ exc = "none"

\* line 207
CompareCall ==
    /\ pc = "compare"
    /\ LET r == compare_fields(intkeys, strkeys, have_fields, to_merge_fields)
       IN  /\ exc' = r.exc
           /\ result' = IF r.exc = "none" THEN r.val ELSE result
    /\ pc' = "compared"
    /\ UNCHANGED <<dump_vars, run_vars, fold_vars, two_vars>>
    /\ UNCHANGED <<intkeys, strkeys, sums, have_file, to_merge_file, have_pos,
                   to_merge_pos, output, have_fields, to_merge_fields, have_line,
                   to_merge_line>>

SpecCompare == CompareInit /\ [][CompareCall]_vars

\* The record with other values in its sum positions.
SumVariants(r) ==
    { [p \in 1..Len(r) |->
          IF \E k \in 1..Len(sums) : sums[k] + 1 = p THEN c ELSE r[p]] :
      c \in SumFields \cup { S("7") } }

None == 0

\* The (namespace, title) pairs of the watchlist rows.
WatchKeys == { <<2, S("b")>>, <<10, S("a")>> }

\* ORDER BY wl_namespace, wl_title ASC, and sort -t$'\t' -k1n -k2 on
\* records that differ in namespace or title.
KeyBefore(k, l) == k[1] < l[1] \/ (k[1] = l[1] /\ StrLess(k[2], l[2]))

KeyOfRow(r) == <<r[1], r[2]>>

\* The keys of a set in ORDER BY order.
RECURSIVE InOrder(_)
InOrder(keys) ==
    IF keys = {} THEN <<>>
    ELSE LET first == CHOOSE k \in keys : \A l \in keys \ {k} : KeyBefore(k, l)
         IN  <<first>> \o InOrder(keys \ {first})

\* select wl_namespace, wl_title, COUNT(*) FROM watchlist WHERE wl_id >= start
\* AND wl_id < end GROUP BY wl_namespace, wl_title ORDER BY wl_namespace, wl_title
RowsOf(tbl, start, stop, k) ==
    { id \in 1..Len(tbl) : id >= start /\ id < stop /\ tbl[id] = k }

select_count(tbl, start, stop) ==
    LET present == { k \in WatchKeys : RowsOf(tbl, start, stop, k) # {} }
        ordered == InOrder(present)
    IN  [i \in 1..Len(ordered) |->
            <<ordered[i][1], ordered[i][2],
              Cardinality(RowsOf(tbl, start, stop, ordered[i]))>>]

\* select MAX(wl_id) from watchlist, as get_max_id returns it: None for an
\* empty table.
get_max_id(tbl) == IF Len(tbl) = 0 THEN None ELSE Len(tbl)

\* sort -m of two files: the next line is taken from the second file only
\* when it sorts strictly before the next line of the first.
RECURSIVE sort_m(_, _)
sort_m(one, two) ==
    IF one = <<>> THEN two
    ELSE IF two = <<>> THEN one
    ELSE IF KeyBefore(KeyOfRow(Head(two)), KeyOfRow(Head(one)))
    THEN <<Head(two)>> \o sort_m(one, Tail(two))
    ELSE <<Head(one)>> \o sort_m(Tail(one), two)

\* mlr stats1 -g 1,2 -f 3 -a sum: one record per (field 1, field 2), in the
\* order of first appearance, with the sum of field 3.
RECURSIVE stats1_sum(_, _)
stats1_sum(done, rest) ==
    IF rest = <<>> THEN done
    ELSE LET r == Head(rest)
             at == { i \in 1..Len(done) : KeyOfRow(done[i]) = KeyOfRow(r) }
         IN  IF at = {}
             THEN stats1_sum(Append(done, r), Tail(rest))
             ELSE stats1_sum(
                      [i \in 1..Len(done) |->
                          IF i \in at THEN <<done[i][1], done[i][2], done[i][3] + r[3]>>
                          ELSE done[i]],
                      Tail(rest))

\* The command line of MergeAdder.merge.
merge_command(merge_into, to_merge) == stats1_sum(<<>>, sort_m(merge_into, to_merge))

\* SELECT page_namespace, page_title FROM page ORDER BY page_namespace,
\* page_title ASC
select_titles(pg) == InOrder(pg)

\* mlr join -j 1,2 -f watchlist titles: the records of the watchlist file
\* whose fields 1 and 2 are a record of the titles file.
RECURSIVE mlr_join(_, _)
mlr_join(watchlist, titles) ==
    IF watchlist = <<>> THEN <<>>
    ELSE (IF \E i \in 1..Len(titles) : titles[i] = KeyOfRow(Head(watchlist))
          THEN <<Head(watchlist)>> ELSE <<>>)
         \o mlr_join(Tail(watchlist), titles)

\* Files: a path holds a file with its records, or nothing.
\* "out" is the out_path of dump_watchlist (dumped_merged_path of do_main) and
\* "output" the --output path, which do_filter writes.
Paths == {"all_merge_into", "batch_merge_into", "dumped", "merged", "out",
          "titles", "uncompressed", "output"}
NoFile == [exists |-> FALSE, lines |-> <<>>]
File(lines) == [exists |-> TRUE, lines |-> lines]

\* What an earlier run may have left in the temp directory.
StaleFile == File(<<<<2, S("b"), 7>>>>)

\* create_empty_file opening the file for append instead of "wt": a file that
\* is there keeps its records.  FinalAccumulatorIsAggregate fails with it.
create_empty_file_append(fs, path) ==
    IF fs[path].exists THEN fs ELSE [fs EXCEPT ![path] = File(<<>>)]

\* gzip.open(path, "wt") and close: path holds an empty file.
create_empty_file(fs, path) == [fs EXCEPT ![path] = File(<<>>)]

\* shutil.move(src, dst)
move(fs, src, dst) == [fs EXCEPT ![dst] = fs[src], ![src] = NoFile]

\* os.unlink(path)
unlink(fs, path) == [fs EXCEPT ![path] = NoFile]

\* ------------------------------------------------------------------------
\* WatchlistDumper.dump_watchlist and dump_merge_batch, TitleFilter.do_filter
\* and the end of do_main
\*
\* executed is the sequence of what the run did outside the process, in
\* order: <<"max_id">>, <<"create", path>>, <<"query", start, end>>,
\* <<"merge", merge_into, to_merge, merged_path>>, <<"move", src, dst>>,
\* <<"unlink", path>>, <<"titles", path>>, <<"gunzip", src, dst>>,
\* <<"join", watchlist, titles, output>>.  printed is the sequence of what a
\* dry run printed instead of doing it.

\* do_merge is not part of this specification.
MergeIdle ==
    /\ intkeys = <<0>>
    /\ strkeys = <<1>>
    /\ sums = <<2>>
    /\ have_file = <<>>
    /\ to_merge_file = <<>>
    /\ have_pos = 0
    /\ to_merge_pos = 0
    /\ output = <<>>
    /\ have_fields = <<>>
    /\ to_merge_fields = <<>>
    /\ have_line = <<>>
    /\ to_merge_line = <<>>
    /\ result = 0
    /\ pc = "idle"
    /\ exc = "none"

\* The page tables of the runs: every watched title is a page, or one of
\* them is not.
PageTables == { WatchKeys, {<<2, S("b")>>} }

\* The temp directory before the run: empty, or with the files an earlier
\* run left behind.
InitialFiles(stale) ==
    [p \in Paths |-> IF stale /\ p \notin {"out", "output"} THEN StaleFile ELSE NoFile]

DumpInit ==
    /\ MergeIdle
    /\ RunIdle
    /\ FoldIdle
    /\ TwoIdle
    /\ table \in UNION { [1..n -> WatchKeys] : n \in 0..MaxId }
    /\ page \in PageTables
    /\ dryrun \in BOOLEAN
    /\ file_batch_count \in 1..MaxCount
    /\ batchsize \in 1..MaxSpan
    /\ \E stale \in BOOLEAN : files = InitialFiles(stale)
    /\ maxid = None
    /\ startrow = None
    /\ b_startrow = None
    /\ index = 0
    /\ end = 0
    /\ wpc = "get_max_id"
    /\ werr = "none"
    /\ fetched = <<>>
    /\ batch_first = 0
    /\ batch_fetched = 0
    /\ executed = <<>>
    /\ printed = <<>>

\* dump_watchlist with "if not maxid" of line 338 left out: it goes on with
\* no maximum id.  ExitsAtOnceWithoutMaxId fails with it.
GetMaxId_no_bail ==
    /\ wpc = "get_max_id"
    /\ maxid' = get_max_id(table)
    /\ executed' = Append(executed, <<"max_id">>)
    /\ wpc' = "create_all"
    /\ UNCHANGED <<table, page, dryrun, file_batch_count, batchsize, files,
                   startrow, b_startrow, index, end, werr, fetched, batch_first,
                   batch_fetched, printed>>
    /\ UNCHANGED <<merge_vars, run_vars, fold_vars, two_vars>>

\* dump_watchlist, lines 337-343: get_max_id has no dryrun argument and
\* sends its query in every run
GetMaxId ==
    /\ wpc = "get_max_id"
    /\ maxid' = get_max_id(table)
    /\ executed' = Append(executed, <<"max_id">>)
    /\ IF maxid' = None
       THEN wpc' = "exited" /\ werr' = "SystemExit"
       ELSE wpc' = "create_all" /\ werr' = werr
    /\ UNCHANGED <<table, page, dryrun, file_batch_count, batchsize, files,
                   startrow, b_startrow, index, end, fetched, batch_first,
                   batch_fetched, printed>>
    /\ UNCHANGED <<merge_vars, run_vars, fold_vars, two_vars>>

\* dump_watchlist, lines 346-359
CreateAll ==
    /\ wpc = "create_all"
    /\ IF dryrun
       THEN UNCHANGED <<files, executed>>
       ELSE /\ files' = create_empty_file(files, "all_merge_into")
            /\ executed' = Append(executed, <<"create", "all_merge_into">>)
    /\ startrow' = 1
    /\ wpc' = "top_loop"
    /\ UNCHANGED <<table, page, dryrun, file_batch_count, batchsize, maxid,
                   b_startrow, index, end, werr, fetched, batch_first,
                   batch_fetched, printed>>
    /\ UNCHANGED <<merge_vars, run_vars, fold_vars, two_vars>>

\* dump_watchlist, lines 360-365: the loop test, and the call of
\* dump_merge_batch when it holds
TopLoop ==
    /\ wpc = "top_loop"
    /\ IF startrow # None /\ startrow < maxid
       THEN b_startrow' = startrow /\ wpc' = "batch_enter"
       ELSE b_startrow' = b_startrow /\ wpc' = "finish"
    /\ UNCHANGED <<table, page, dryrun, file_batch_count, batchsize, files, maxid,
                   startrow, index, end, werr, fetched, batch_first, batch_fetched,
                   executed, printed>>
    /\ UNCHANGED <<merge_vars, run_vars, fold_vars, two_vars>>

\* dump_merge_batch, lines 294-305
BatchEnter ==
    /\ wpc = "batch_enter"
    /\ index' = 1
    /\ IF dryrun
       THEN UNCHANGED <<files, executed>>
       ELSE /\ files' = create_empty_file(files, "batch_merge_into")
            /\ executed' = Append(executed, <<"create", "batch_merge_into">>)
    /\ batch_first' = b_startrow
    /\ batch_fetched' = 0
    /\ IF b_startrow >= maxid \/ index' >= file_batch_count
       THEN startrow' = None /\ wpc' = "batch_returned"
       ELSE startrow' = startrow /\ wpc' = "batch_loop"
    /\ UNCHANGED <<table, page, dryrun, file_batch_count, batchsize, maxid,
                   b_startrow, end, werr, fetched, printed>>
    /\ UNCHANGED <<merge_vars, run_vars, fold_vars, two_vars>>

\* dump_merge_batch, line 307
BatchLoop ==
    /\ wpc = "batch_loop"
    /\ wpc' = IF b_startrow < maxid /\ index < file_batch_count
              THEN "query" ELSE "batch_exit"
    /\ UNCHANGED <<table, page, dryrun, file_batch_count, batchsize, files, maxid,
                   startrow, b_startrow, index, end, werr, fetched, batch_first,
                   batch_fetched, executed, printed>>
    /\ UNCHANGED <<merge_vars, run_vars, fold_vars, two_vars>>

\* do_one_query without the "if dryrun" of lines 230-232: the query is sent in
\* a dry run too.  DryRunOnlyLooksUpMaxId fails with it.
Query_in_dry_run ==
    /\ wpc = "query"
    /\ end' = b_startrow + batchsize
    /\ files' = [files EXCEPT
                    !["dumped"] = File(select_count(table, b_startrow, end'))]
    /\ fetched' = Append(fetched, <<b_startrow, end'>>)
    /\ batch_fetched' = batch_fetched + 1
    /\ executed' = Append(executed, <<"query", b_startrow, end'>>)
    /\ wpc' = "batch_merge"
    /\ UNCHANGED <<table, page, dryrun, file_batch_count, batchsize, maxid,
                   startrow, b_startrow, index, werr, batch_first, printed>>
    /\ UNCHANGED <<merge_vars, run_vars, fold_vars, two_vars>>

\* dump_merge_batch, lines 308-313: do_one_query prints in a dry run and
\* otherwise runs the query into the dumped file
Query ==
    /\ wpc = "query"
    /\ end' = b_startrow + batchsize
    /\ IF dryrun
       THEN /\ printed' = Append(printed, <<"query", b_startrow, end'>>)
            /\ UNCHANGED <<files, fetched, batch_fetched, executed>>
       ELSE /\ files' = [files EXCEPT
                            !["dumped"] = File(select_count(table, b_startrow, end'))]
            /\ fetched' = Append(fetched, <<b_startrow, end'>>)
            /\ batch_fetched' = batch_fetched + 1
            /\ executed' = Append(executed, <<"query", b_startrow, end'>>)
            /\ printed' = printed
    /\ wpc' = "batch_merge"
    /\ UNCHANGED <<table, page, dryrun, file_batch_count, batchsize, maxid,
                   startrow, b_startrow, index, werr, batch_first>>
    /\ UNCHANGED <<merge_vars, run_vars, fold_vars, two_vars>>

\* run_without_output, lines 147-150, under do_one_query: the command failed
\* maxtries times.  Its redirection has created or emptied the dumped file.
QueryFails ==
    /\ wpc = "query"
    /\ ~dryrun
    /\ end' = b_startrow + batchsize
    /\ files' = [files EXCEPT !["dumped"] = File(<<>>)]
    /\ executed' = Append(executed, <<"query", b_startrow, end'>>)
    /\ wpc' = "raised"
    /\ werr' = "BackupError"
    /\ UNCHANGED <<table, page, dryrun, file_batch_count, batchsize, maxid,
                   startrow, b_startrow, index, fetched, batch_first,
                   batch_fetched, printed>>
    /\ UNCHANGED <<merge_vars, run_vars, fold_vars, two_vars>>

\* dump_merge_batch, lines 314-317
BatchMerge ==
    /\ wpc = "batch_merge"
    /\ IF dryrun
       THEN /\ printed' = Append(printed, <<"merge", "batch_merge_into", "dumped", "merged">>)
            /\ UNCHANGED <<files, executed>>
       ELSE /\ files' = [files EXCEPT !["merged"] =
                            File(merge_command(files["batch_merge_into"].lines,
                                               files["dumped"].lines))]
            /\ executed' = Append(executed, <<"merge", "batch_merge_into", "dumped", "merged">>)
            /\ printed' = printed
    /\ wpc' = "batch_move"
    /\ UNCHANGED <<table, page, dryrun, file_batch_count, batchsize, maxid,
                   startrow, b_startrow, index, end, werr, fetched, batch_first,
                   batch_fetched>>
    /\ UNCHANGED <<merge_vars, run_vars, fold_vars, two_vars>>

\* run_without_output, lines 147-150, under MergeAdder.merge
BatchMergeFails ==
    /\ wpc = "batch_merge"
    /\ ~dryrun
    /\ files' = [files EXCEPT !["merged"] = File(<<>>)]
    /\ executed' = Append(executed, <<"merge", "batch_merge_into", "dumped", "merged">>)
    /\ wpc' = "raised"
    /\ werr' = "BackupError"
    /\ UNCHANGED <<table, page, dryrun, file_batch_count, batchsize, maxid,
                   startrow, b_startrow, index, end, fetched, batch_first,
                   batch_fetched, printed>>
    /\ UNCHANGED <<merge_vars, run_vars, fold_vars, two_vars>>

\* dump_merge_batch with "startrow = end + 1" for line 321: a row is left out
\* between two partitions.  CursorAdvancesBySpan fails with it.
BatchMove_gap ==
    /\ wpc = "batch_move"
    /\ IF dryrun
       THEN UNCHANGED <<files, executed>>
       ELSE /\ files' = move(files, "merged", "batch_merge_into")
            /\ executed' = Append(executed, <<"move", "merged", "batch_merge_into">>)
    /\ b_startrow' = end + 1
    /\ index' = index + 1
    /\ wpc' = "batch_loop"
    /\ UNCHANGED <<table, page, dryrun, file_batch_count, batchsize, maxid,
                   startrow, end, werr, fetched, batch_first, batch_fetched, printed>>
    /\ UNCHANGED <<merge_vars, run_vars, fold_vars, two_vars>>

\* dump_merge_batch without the shutil.move of line 319: the accumulator is
\* not replaced by the merged file.  FetchesAndMergesAlternate fails with it.
BatchMove_keeps_accumulator ==
    /\ wpc = "batch_move"
    /\ b_startrow' = end
    /\ index' = index + 1
    /\ wpc' = "batch_loop"
    /\ UNCHANGED <<table, page, dryrun, file_batch_count, batchsize, files, maxid,
                   startrow, end, werr, fetched, batch_first, batch_fetched,
                   executed, printed>>
    /\ UNCHANGED <<merge_vars, run_vars, fold_vars, two_vars>>

\* dump_merge_batch, lines 318-322
BatchMove ==
    /\ wpc = "batch_move"
    /\ IF dryrun
       THEN UNCHANGED <<files, executed>>
       ELSE /\ files' = move(files, "merged", "batch_merge_into")
            /\ executed' = Append(executed, <<"move", "merged", "batch_merge_into">>)
    /\ b_startrow' = end
    /\ index' = index + 1
    /\ wpc' = "batch_loop"
    /\ UNCHANGED <<table, page, dryrun, file_batch_count, batchsize, maxid,
                   startrow, end, werr, fetched, batch_first, batch_fetched, printed>>
    /\ UNCHANGED <<merge_vars, run_vars, fold_vars, two_vars>>

\* dump_merge_batch returning None after its loop instead of startrow.
\* SinglePartitionCallReturnsCursor fails with it.
BatchExit_returns_None ==
    /\ wpc = "batch_exit"
    /\ IF dryrun
       THEN UNCHANGED <<files, executed>>
       ELSE /\ files' = unlink(files, "dumped")
            /\ executed' = Append(executed, <<"unlink", "dumped">>)
    /\ startrow' = None
    /\ wpc' = "batch_returned"
    /\ UNCHANGED <<table, page, dryrun, file_batch_count, batchsize, maxid,
                   b_startrow, index, end, werr, fetched, batch_first,
                   batch_fetched, printed>>
    /\ UNCHANGED <<merge_vars, run_vars, fold_vars, two_vars>>

\* dump_merge_batch without the "if not dryrun" of line 324: the dumped file
\* is unlinked in a dry run too.  DryRunKeepsFiles fails with it.
BatchExit_unlinks_in_dry_run ==
    /\ wpc = "batch_exit"
    /\ files' = unlink(files, "dumped")
    /\ executed' = Append(executed, <<"unlink", "dumped">>)
    /\ startrow' = b_startrow
    /\ wpc' = "batch_returned"
    /\ UNCHANGED <<table, page, dryrun, file_batch_count, batchsize, maxid,
                   b_startrow, index, end, werr, fetched, batch_first,
                   batch_fetched, printed>>
    /\ UNCHANGED <<merge_vars, run_vars, fold_vars, two_vars>>

\* dump_merge_batch returning the startrow it was called with, as if line 321
\* did not advance the cursor.  TerminatesWhenStepsSucceed fails with it.
BatchExit_returns_first ==
    /\ wpc = "batch_exit"
    /\ IF dryrun
       THEN UNCHANGED <<files, executed>>
       ELSE /\ files' = unlink(files, "dumped")
            /\ executed' = Append(executed, <<"unlink", "dumped">>)
    /\ startrow' = batch_first
    /\ wpc' = "batch_returned"
    /\ UNCHANGED <<table, page, dryrun, file_batch_count, batchsize, maxid,
                   b_startrow, index, end, werr, fetched, batch_first,
                   batch_fetched, printed>>
    /\ UNCHANGED <<merge_vars, run_vars, fold_vars, two_vars>>

\* dump_merge_batch, lines 324-327
BatchExit ==
    /\ wpc = "batch_exit"
    /\ IF dryrun
       THEN UNCHANGED <<files, executed>>
       ELSE /\ files' = unlink(files, "dumped")
            /\ executed' = Append(executed, <<"unlink", "dumped">>)
    /\ startrow' = b_startrow
    /\ wpc' = "batch_returned"
    /\ UNCHANGED <<table, page, dryrun, file_batch_count, batchsize, maxid,
                   b_startrow, index, end, werr, fetched, batch_first,
                   batch_fetched, printed>>
    /\ UNCHANGED <<merge_vars, run_vars, fold_vars, two_vars>>

\* dump_watchlist, line 366
BatchReturned ==
    /\ wpc = "batch_returned"
    /\ wpc' = IF startrow # None THEN "top_merge" ELSE "top_loop"
    /\ UNCHANGED <<table, page, dryrun, file_batch_count, batchsize, files, maxid,
                   startrow, b_startrow, index, end, werr, fetched, batch_first,
                   batch_fetched, executed, printed>>
    /\ UNCHANGED <<merge_vars, run_vars, fold_vars, two_vars>>

\* dump_watchlist, lines 367-371
TopMerge ==
    /\ wpc = "top_merge"
    /\ IF dryrun
       THEN /\ printed' = Append(printed, <<"merge", "all_merge_into", "batch_merge_into", "merged">>)
            /\ UNCHANGED <<files, executed>>
       ELSE /\ files' = [files EXCEPT !["merged"] =
                            File(merge_command(files["all_merge_into"].lines,
                                               files["batch_merge_into"].lines))]
            /\ executed' = Append(executed, <<"merge", "all_merge_into", "batch_merge_into", "merged">>)
            /\ printed' = printed
    /\ wpc' = "top_move"
    /\ UNCHANGED <<table, page, dryrun, file_batch_count, batchsize, maxid,
                   startrow, b_startrow, index, end, werr, fetched, batch_first,
                   batch_fetched>>
    /\ UNCHANGED <<merge_vars, run_vars, fold_vars, two_vars>>

\* dump_watchlist catching the BackupError of the merge and going on.
\* FailedStepPublishesNothing fails with it.
TopMergeFails_goes_on ==
    /\ wpc = "top_merge"
    /\ ~dryrun
    /\ files' = [files EXCEPT !["merged"] = File(<<>>)]
    /\ executed' = Append(executed, <<"merge", "all_merge_into", "batch_merge_into", "merged">>)
    /\ wpc' = "top_move"
    /\ werr' = "BackupError"
    /\ UNCHANGED <<table, page, dryrun, file_batch_count, batchsize, maxid,
                   startrow, b_startrow, index, end, fetched, batch_first,
                   batch_fetched, printed>>
    /\ UNCHANGED <<merge_vars, run_vars, fold_vars, two_vars>>

\* run_without_output, lines 147-150, under MergeAdder.merge
TopMergeFails ==
    /\ wpc = "top_merge"
    /\ ~dryrun
    /\ files' = [files EXCEPT !["merged"] = File(<<>>)]
    /\ executed' = Append(executed, <<"merge", "all_merge_into", "batch_merge_into", "merged">>)
    /\ wpc' = "raised"
    /\ werr' = "BackupError"
    /\ UNCHANGED <<table, page, dryrun, file_batch_count, batchsize, maxid,
                   startrow, b_startrow, index, end, fetched, batch_first,
                   batch_fetched, printed>>
    /\ UNCHANGED <<merge_vars, run_vars, fold_vars, two_vars>>

\* dump_watchlist, lines 372-373
TopMove ==
    /\ wpc = "top_move"
    /\ IF dryrun
       THEN UNCHANGED <<files, executed>>
       ELSE /\ files' = move(files, "merged", "all_merge_into")
            /\ executed' = Append(executed, <<"move", "merged", "all_merge_into">>)
    /\ wpc' = "top_loop"
    /\ UNCHANGED <<table, page, dryrun, file_batch_count, batchsize, maxid,
                   startrow, b_startrow, index, end, werr, fetched, batch_first,
                   batch_fetched, printed>>
    /\ UNCHANGED <<merge_vars, run_vars, fold_vars, two_vars>>

\* dump_watchlist, lines 375-381: wpc = "done" is do_main between the return
\* of dump_watchlist and the call of do_filter
Finish ==
    /\ wpc = "finish"
    /\ IF dryrun
       THEN /\ printed' = Append(printed, <<"move", "all_merge_into", "out">>)
            /\ UNCHANGED <<files, executed>>
       ELSE /\ files' = move(files, "all_merge_into", "out")
            /\ executed' = Append(executed, <<"move", "all_merge_into", "out">>)
            /\ printed' = printed
    /\ wpc' = "done"
    /\ UNCHANGED <<table, page, dryrun, file_batch_count, batchsize, maxid,
                   startrow, b_startrow, index, end, werr, fetched, batch_first,
                   batch_fetched>>
    /\ UNCHANGED <<merge_vars, run_vars, fold_vars, two_vars>>

\* do_filter, lines 414-415, and dump_titles
DumpTitles ==
    /\ wpc = "done"
    /\ IF dryrun
       THEN /\ printed' = Append(printed, <<"titles", "titles">>)
            /\ UNCHANGED <<files, executed>>
       ELSE /\ files' = [files EXCEPT !["titles"] = File(select_titles(page))]
            /\ executed' = Append(executed, <<"titles", "titles">>)
            /\ printed' = printed
    /\ wpc' = "decompress"
    /\ UNCHANGED <<table, page, dryrun, file_batch_count, batchsize, maxid,
                   startrow, b_startrow, index, end, werr, fetched, batch_first,
                   batch_fetched>>
    /\ UNCHANGED <<merge_vars, run_vars, fold_vars, two_vars>>

\* run_without_output, lines 147-150, under dump_titles
DumpTitlesFails ==
    /\ wpc = "done"
    /\ ~dryrun
    /\ files' = [files EXCEPT !["titles"] = File(<<>>)]
    /\ executed' = Append(executed, <<"titles", "titles">>)
    /\ wpc' = "raised"
    /\ werr' = "BackupError"
    /\ UNCHANGED <<table, page, dryrun, file_batch_count, batchsize, maxid,
                   startrow, b_startrow, index, end, fetched, batch_first,
                   batch_fetched, printed>>
    /\ UNCHANGED <<merge_vars, run_vars, fold_vars, two_vars>>

\* do_filter, lines 418-425
Decompress ==
    /\ wpc = "decompress"
    /\ IF dryrun
       THEN /\ printed' = Append(printed, <<"gunzip", "out", "uncompressed">>)
            /\ UNCHANGED <<files, executed>>
       ELSE /\ files' = [files EXCEPT !["uncompressed"] = File(files["out"].lines)]
            /\ executed' = Append(executed, <<"gunzip", "out", "uncompressed">>)
            /\ printed' = printed
    /\ wpc' = "join"
    /\ UNCHANGED <<table, page, dryrun, file_batch_count, batchsize, maxid,
                   startrow, b_startrow, index, end, werr, fetched, batch_first,
                   batch_fetched>>
    /\ UNCHANGED <<merge_vars, run_vars, fold_vars, two_vars>>

\* run_without_output, lines 147-150, under do_filter, line 425
DecompressFails ==
    /\ wpc = "decompress"
    /\ ~dryrun
    /\ files' = [files EXCEPT !["uncompressed"] = File(<<>>)]
    /\ executed' = Append(executed, <<"gunzip", "out", "uncompressed">>)
    /\ wpc' = "raised"
    /\ werr' = "BackupError"
    /\ UNCHANGED <<table, page, dryrun, file_batch_count, batchsize, maxid,
                   startrow, b_startrow, index, end, fetched, batch_first,
                   batch_fetched, printed>>
    /\ UNCHANGED <<merge_vars, run_vars, fold_vars, two_vars>>

\* do_filter, lines 427-439
FilterJoin ==
    /\ wpc = "join"
    /\ IF dryrun
       THEN /\ printed' = Append(printed, <<"join", "uncompressed", "titles", "output">>)
            /\ UNCHANGED <<files, executed>>
       ELSE /\ files' = unlink(unlink(
                            [files EXCEPT !["output"] =
                                File(mlr_join(files["uncompressed"].lines,
                                              files["titles"].lines))],
                            "titles"), "uncompressed")
            /\ executed' = executed \o << <<"join", "uncompressed", "titles", "output">>,
                                          <<"unlink", "titles">>,
                                          <<"unlink", "uncompressed">> >>
            /\ printed' = printed
    /\ wpc' = "main_unlink"
    /\ UNCHANGED <<table, page, dryrun, file_batch_count, batchsize, maxid,
                   startrow, b_startrow, index, end, werr, fetched, batch_first,
                   batch_fetched>>
    /\ UNCHANGED <<merge_vars, run_vars, fold_vars, two_vars>>

\* run_without_output, lines 147-150, under do_filter, line 436
FilterJoinFails ==
    /\ wpc = "join"
    /\ ~dryrun
    /\ files' = [files EXCEPT !["output"] = File(<<>>)]
    /\ executed' = Append(executed, <<"join", "uncompressed", "titles", "output">>)
    /\ wpc' = "raised"
    /\ werr' = "BackupError"
    /\ UNCHANGED <<table, page, dryrun, file_batch_count, batchsize, maxid,
                   startrow, b_startrow, index, end, fetched, batch_first,
                   batch_fetched, printed>>
    /\ UNCHANGED <<merge_vars, run_vars, fold_vars, two_vars>>

\* do_main, lines 467-468
MainUnlink ==
    /\ wpc = "main_unlink"
    /\ IF dryrun
       THEN UNCHANGED <<files, executed>>
       ELSE /\ files' = unlink(files, "out")
            /\ executed' = Append(executed, <<"unlink", "out">>)
    /\ wpc' = "main_done"
    /\ UNCHANGED <<table, page, dryrun, file_batch_count, batchsize, maxid,
                   startrow, b_startrow, index, end, werr, fetched, batch_first,
                   batch_fetched, printed>>
    /\ UNCHANGED <<merge_vars, run_vars, fold_vars, two_vars>>

Init == DumpInit

Next ==
    \/ GetMaxId
    \/ CreateAll
    \/ TopLoop
    \/ BatchEnter
    \/ BatchLoop
    \/ Query
    \/ QueryFails
    \/ BatchMerge
    \/ BatchMergeFails
    \/ BatchMove
    \/ BatchExit
    \/ BatchReturned
    \/ TopMerge
    \/ TopMergeFails
    \/ TopMove
    \/ Finish
    \/ DumpTitles
    \/ DumpTitlesFails
    \/ Decompress
    \/ DecompressFails
    \/ FilterJoin
    \/ FilterJoinFails
    \/ MainUnlink

Spec == Init /\ [][Next]_vars

\* The exit status of the process: sys.exit(1), or an uncaught exception.
ExitStatus == IF werr = "none" THEN 0 ELSE 1

\* ------------------------------------------------------------------------
\* Properties of the pipeline.

\* Strictly increasing keys: sorted, and one record for a key.
StrictlySorted(rows) ==
    \A i \in 1..(Len(rows) - 1) : KeyBefore(KeyOfRow(rows[i]), KeyOfRow(rows[i + 1]))

\* The count a file holds for a key, 0 when it has no record for it.
RECURSIVE CountIn(_, _)
CountIn(rows, k) ==
    IF rows = <<>> THEN 0
    ELSE (IF KeyOfRow(Head(rows)) = k THEN Head(rows)[3] ELSE 0)
         + CountIn(Tail(rows), k)

\* The rows with key k in the fetched ranges, each range counted once.
RECURSIVE FetchedTotal(_, _)
FetchedTotal(ranges, k) ==
    IF ranges = <<>> THEN 0
    ELSE Cardinality(RowsOf(table, Head(ranges)[1], Head(ranges)[2], k))
         + FetchedTotal(Tail(ranges), k)

\* C3: when dump_watchlist is done, the final accumulator is sorted, has one
\* record for a key, and holds for every key the sum over the partitions
\* fetched in the run, each partition counted exactly once.
FinalAccumulatorIsAggregate ==
    (wpc = "done" /\ ~dryrun) =>
        /\ files["out"].exists
        /\ StrictlySorted(files["out"].lines)
        /\ \A i \in 1..Len(files["out"].lines) :
               /\ KeyOfRow(files["out"].lines[i]) \in WatchKeys
               /\ files["out"].lines[i][3] > 0
        /\ \A k \in WatchKeys :
               CountIn(files["out"].lines, k) = FetchedTotal(fetched, k)

\* Two batches were folded, three partitions in all, and both keys are in
\* the result, one of them from more than one row.
FinalAccumulatorWitness ==
    /\ wpc = "done" /\ ~dryrun
    /\ Len(fetched) = 3
    /\ file_batch_count = 3
    /\ Len(files["out"].lines) = 2
    /\ \E i \in 1..2 : files["out"].lines[i][3] >= 2

Min(a, b) == IF a < b THEN a ELSE b

\* The number of partitions of width batchsize that bring a cursor at first
\* to or past maxid.
PartitionsNeeded(first) == (maxid - first + batchsize - 1) \div batchsize

\* C10: one call of dump_merge_batch with startrow < maxid fetches and folds
\* exactly min(count, partitions needed to reach maxid) partitions.
BatchFoldsUpToCount ==
    (wpc = "batch_returned" /\ ~dryrun /\ batch_first < maxid) =>
        batch_fetched = Min(file_batch_count, PartitionsNeeded(batch_first))

\* dump_merge_batch was called with count = 2 and startrow = 1, there are rows
\* to fetch, and one span from row 1 reaches maxid.
SinglePartitionCall ==
    /\ ~dryrun
    /\ file_batch_count = 2
    /\ batch_first = 1
    /\ 1 < maxid
    /\ 1 + batchsize >= maxid

\* C11 as stated: such a call folds exactly one partition and returns None.
SinglePartitionCallReturnsNone ==
    (wpc = "batch_returned" /\ SinglePartitionCall) =>
        (batch_fetched = 1 /\ startrow = None)

\* C11, amended: such a call folds exactly one partition and returns the
\* advanced cursor 1 + span, which is at or past maxid; it is the caller's
\* loop test that ends the run, after the batch was merged.
SinglePartitionCallReturnsCursor ==
    (wpc = "batch_returned" /\ SinglePartitionCall) =>
        /\ batch_fetched = 1
        /\ fetched = << <<1, 1 + batchsize>> >>
        /\ startrow = 1 + batchsize
        /\ startrow # None
        /\ startrow >= maxid

SinglePartitionCallWitness ==
    /\ wpc = "batch_returned"
    /\ SinglePartitionCall
    /\ maxid = 3
    /\ batchsize = 2
    /\ files["batch_merge_into"].lines # <<>>

\* The partition queries of a log, in order.
RECURSIVE Queries(_)
Queries(log) ==
    IF log = <<>> THEN <<>>
    ELSE (IF Head(log)[1] = "query" THEN <<Head(log)>> ELSE <<>>) \o Queries(Tail(log))

\* The ranges requested from the Partition Producer so far: sent in a real
\* run, printed in a dry run.
Requested == Queries(IF dryrun THEN printed ELSE executed)

\* The i-th range requested is [1 + (i-1)*span, 1 + i*span), and it starts
\* below maxid.
RangesContiguous ==
    \A i \in 1..Len(Requested) :
        /\ Requested[i] = <<"query", 1 + (i - 1) * batchsize, 1 + i * batchsize>>
        /\ Requested[i][2] < maxid

\* One step of the cursor: startrow of dump_watchlist becomes 1 when it is
\* first set, and then None or the value the batch brought it to, one span
\* for each partition of the batch; startrow of dump_merge_batch goes up by
\* one span at the end of each loop body and never goes down.
CursorStep ==
    /\ (startrow = None /\ startrow' # None) =>
           (startrow' = 1 /\ wpc = "create_all" /\ Requested = <<>>)
    /\ (startrow # None /\ startrow' # None /\ startrow' # startrow) =>
           /\ wpc = "batch_exit"
           /\ startrow' > startrow
           /\ startrow' = startrow + (index - 1) * batchsize
    /\ wpc = "batch_move" => b_startrow' = b_startrow + batchsize
    /\ b_startrow' >= b_startrow
    /\ Len(Requested') > Len(Requested) => b_startrow < maxid

\* C12: the cursor starts at 1, goes up by one span after each partition and
\* never down while it is a row id; the ranges requested are [1, 1+span),
\* [1+span, 1+2*span), ... with no gap and no overlap, and none is requested
\* once the cursor is at or past maxid.
CursorAdvancesBySpan == []RangesContiguous /\ [][CursorStep]_vars

\* Three partitions were requested, in more than one batch.
CursorAdvancesWitness ==
    /\ wpc = "done"
    /\ Len(Requested) = 3
    /\ file_batch_count = 2
    /\ batchsize = 1


\* C13: in a dry run no step of the batch fold, the top-level fold, the
\* filter or the final cleanup changes a file or does anything outside the
\* process: after the lookup of the maximum id, files and executed stay as
\* they are.
DryRunKeepsFiles ==
    [][dryrun => /\ files' = files
                 /\ wpc # "get_max_id" => executed' = executed]_vars

\* A dry run went through two batches, the filter and the cleanup in a temp
\* directory that held files of an earlier run, and printed its plan.
DryRunKeepsFilesWitness ==
    /\ dryrun
    /\ wpc = "main_done"
    /\ files = InitialFiles(TRUE)
    /\ Len(Requested) = 2
    /\ file_batch_count = 2
    /\ Len(printed) = 10


\* The entries of executed that are queries of the data source.
DataSourceQueries ==
    { i \in 1..Len(executed) : executed[i][1] \in {"max_id", "query", "titles"} }

\* C14 as stated: a dry run sends no query of any kind to the data source.
DryRunSendsNoQuery == dryrun => DataSourceQueries = {}

\* C14, amended: a dry run sends exactly one query to the data source, the
\* lookup of the maximum id at its start; no partition is fetched and the
\* titles are not dumped.
DryRunOnlyLooksUpMaxId ==
    dryrun => /\ wpc = "get_max_id" => executed = <<>>
              /\ wpc # "get_max_id" => executed = << <<"max_id">> >>

\* A dry run came to its end with three partition queries printed and none
\* sent.
DryRunOnlyLooksUpMaxIdWitness ==
    /\ dryrun
    /\ wpc = "main_done"
    /\ Len(Requested) = 3
    /\ \E i \in 1..Len(printed) : printed[i][1] = "titles"
    /\ executed = << <<"max_id">> >>

\* run_without_output raised its BackupError under a partition fetch or a
\* merge: the last thing executed is the command that failed.
FetchOrMergeFailed ==
    /\ werr = "BackupError"
    /\ executed[Len(executed)][1] \in {"query", "merge"}

\* C16: a partition fetch or a merge that fails ends the pipeline there, and
\* neither the published path of the accumulator nor the final output is ever
\* written; the accumulator is moved to its published path only by the step
\* after the top-level loop has ended, no step having failed.
FailedStepPublishesNothing ==
    /\ [](FetchOrMergeFailed =>
              /\ wpc = "raised"
              /\ ~files["out"].exists
              /\ ~files["output"].exists)
    /\ [][/\ wpc # "raised"
          /\ files'["out"] # files["out"] /\ files'["out"].exists =>
                 /\ wpc = "finish"
                 /\ werr = "none"
                 /\ startrow = None \/ startrow >= maxid
                 /\ files'["out"] = files["all_merge_into"]]_vars

\* The merge of the second batch into the cross-batch accumulator failed.
FailedStepWitness ==
    /\ FetchOrMergeFailed
    /\ wpc = "raised"
    /\ executed[Len(executed)] = <<"merge", "all_merge_into", "batch_merge_into", "merged">>
    /\ Len(fetched) = 2
    /\ files["all_merge_into"].lines # <<>>
    /\ ~files["out"].exists

\* C17: when get_max_id returns None, dump_watchlist exits at once with a
\* status that is not 0: nothing was created, fetched, merged or printed, and
\* no step follows.
ExitsAtOnceWithoutMaxId ==
    /\ []((maxid = None /\ wpc # "get_max_id") =>
              /\ wpc = "exited"
              /\ werr = "SystemExit"
              /\ ExitStatus # 0
              /\ executed = << <<"max_id">> >>
              /\ printed = <<>>
              /\ fetched = <<>>
              /\ \E stale \in BOOLEAN : files = InitialFiles(stale))
    /\ [][wpc # "exited"]_vars

\* The table is empty and the run has exited, leaving the files of an earlier
\* run as they were.
ExitsAtOnceWitness ==
    /\ wpc = "exited"
    /\ table = <<>>
    /\ files = InitialFiles(TRUE)
    /\ ExitStatus = 1

\* C19, in a real run: a partition is fetched either as the first of its
\* batch, right after the batch accumulator was reset, or right after the
\* merge of the partition before it was run and its result moved over the
\* batch accumulator; the batch accumulator is reset either for the first
\* batch or right after the batch before it was merged into the cross-batch
\* accumulator and the result moved over that accumulator.
FetchesAndMergesAlternate ==
    \A i \in 1..Len(executed) :
        /\ executed[i][1] = "query" =>
               /\ i > 1
               /\ \/ executed[i - 1] = <<"create", "batch_merge_into">>
                  \/ /\ i > 3
                     /\ executed[i - 1] = <<"move", "merged", "batch_merge_into">>
                     /\ executed[i - 2] = <<"merge", "batch_merge_into", "dumped", "merged">>
                     /\ executed[i - 3][1] = "query"
                     /\ executed[i - 3][3] = executed[i][2]
        /\ executed[i] = <<"create", "batch_merge_into">> =>
               /\ i > 1
               /\ \/ executed[i - 1] = <<"create", "all_merge_into">>
                  \/ /\ i > 3
                     /\ executed[i - 1] = <<"move", "merged", "all_merge_into">>
                     /\ executed[i - 2] = <<"merge", "all_merge_into", "batch_merge_into", "merged">>
                     /\ executed[i - 3] = <<"unlink", "dumped">>

\* Two batches were run, the first of two partitions.
FetchesAndMergesWitness ==
    /\ ~dryrun
    /\ wpc = "done"
    /\ file_batch_count = 3
    /\ Len(Queries(executed)) = 3
    /\ Len(executed) = 20


\* The partitions from row start on, folded into acc one after the other by
\* the merge command, in a single batch: what a fold-group size above the
\* number of partitions gives.
RECURSIVE fold_from(_, _)
fold_from(acc, start) ==
    IF start >= maxid THEN acc
    ELSE fold_from(merge_command(acc, select_count(table, start, start + batchsize)),
                   start + batchsize)

\* C18, for the pipeline: the final accumulator is the same run whatever the
\* fold-group size, namely the one a single batch over all the partitions
\* gives.
FoldIndependentOfCount ==
    (wpc = "done" /\ ~dryrun) => files["out"].lines = fold_from(<<>>, 1)

\* It is, for every fold-group size but 1.
FoldIndependentOfCountAboveOne ==
    (wpc = "done" /\ ~dryrun /\ file_batch_count >= 2) =>
        files["out"].lines = fold_from(<<>>, 1)

\* C21: dump_merge_batch returns None only when it was called with the cursor
\* at or past maxid, and when dump_watchlist is done its cursor is a row at
\* or past maxid, whatever the fold-group size.
CursorReachesMaxId ==
    /\ (wpc = "batch_returned" /\ startrow = None) => batch_first >= maxid
    /\ wpc = "done" => (startrow # None /\ startrow >= maxid)

\* It is so for every fold-group size but 1: dump_merge_batch is then never
\* called at or past maxid and never returns None.
CursorReachesMaxIdAboveOne ==
    file_batch_count >= 2 =>
        /\ wpc = "batch_returned" => startrow # None
        /\ wpc = "done" => (startrow # None /\ startrow >= maxid)

\* The fetched partition ranges [start, end) that row id r lies in.
RangesWith(r) ==
    { i \in 1..Len(fetched) : fetched[i][1] <= r /\ r < fetched[i][2] }

\* C22: when the pipeline is done, every row id from 1 through maxid lies in
\* exactly one fetched partition range; the row with id maxid is fetched.
RowsCoveredOnce ==
    (wpc = "done" /\ ~dryrun) =>
        \A r \in 1..maxid : Cardinality(RangesWith(r)) = 1

\* What the loops give for a fold-group size above 1: the rows below maxid
\* lie in exactly one range each, no row in two, and the row maxid is fetched
\* unless a partition ends right before it.
RowsBelowMaxIdCoveredOnce ==
    (wpc = "done" /\ ~dryrun /\ file_batch_count >= 2) =>
        /\ \A r \in 1..(maxid - 1) : Cardinality(RangesWith(r)) = 1
        /\ Cardinality(RangesWith(maxid)) =
               (IF (maxid - 1) % batchsize = 0 THEN 0 ELSE 1)

\* The process is sequential and runs its next statement whenever it has one:
\* a run that can take a step takes one.
SpecLive == Init /\ [][Next]_vars /\ WF_vars(Next)

\* A batch that returns a cursor returns a larger one than it was called
\* with, and the returned cursor stays in dump_watchlist until the next call.
CursorGrows ==
    /\ (wpc = "batch_returned" /\ startrow # None) => startrow > batch_first
    /\ (wpc \in {"top_merge", "top_move"}) => startrow > batch_first

\* The accumulator is delivered when dump_watchlist is done.
Delivered == (wpc = "done" /\ ~dryrun) => files["out"].exists

\* C23: if no external step fails and a maximum id is found, dump_watchlist
\* reaches Done, for every maxid, span and fold-group size of the model;
\* until then every batch that is merged has advanced the cursor, and at Done
\* the accumulator is delivered.
TerminatesWhenStepsSucceed ==
    /\ []CursorGrows
    /\ []Delivered
    /\ ([](werr = "none") => <>(wpc = "done"))

\* Done was reached after two batches were merged into the accumulator.
TerminatesWitness ==
    /\ wpc = "done"
    /\ werr = "none"
    /\ file_batch_count = 2
    /\ batchsize = 1
    /\ maxid = 3
    /\ startrow = 3

\* The same for the loop of dump_watchlist_only.py.
OnlyRowsBelowMaxIdCoveredOnce ==
    wpc = "done" =>
        /\ \A r \in 1..(maxid - 1) : Cardinality(RangesWith(r)) = 1
        /\ Cardinality(RangesWith(maxid)) =
               (IF (maxid - 1) % batchsize = 0 THEN 0 ELSE 1)

\* ------------------------------------------------------------------------
\* dump_watchlist_only.py: WatchlistDumper.dump, which fetches the partitions
\* into files of their own and merges nothing.  Its cursor "start" is kept in
\* startrow.

OnlyInit ==
    /\ MergeIdle
    /\ RunIdle
    /\ FoldIdle
    /\ TwoIdle
    /\ table \in UNION { [1..n -> WatchKeys] : n \in 0..MaxId }
    /\ page = {}
    /\ dryrun = FALSE
    /\ file_batch_count = 0
    /\ batchsize \in 1..MaxSpan
    /\ files = [p \in Paths |-> NoFile]
    /\ maxid = None
    /\ startrow = None
    /\ b_startrow = None
    /\ index = 0
    /\ end = 0
    /\ wpc = "get_max_id"
    /\ werr = "none"
    /\ fetched = <<>>
    /\ batch_first = 0
    /\ batch_fetched = 0
    /\ executed = <<>>
    /\ printed = <<>>

\* dump, lines 115-123
OnlyGetMaxId ==
    /\ wpc = "get_max_id"
    /\ maxid' = get_max_id(table)
    /\ executed' = Append(executed, <<"max_id">>)
    /\ IF maxid' = None
       THEN wpc' = "exited" /\ werr' = "SystemExit" /\ startrow' = startrow
       ELSE wpc' = "only_loop" /\ werr' = werr /\ startrow' = 1
    /\ UNCHANGED <<table, page, dryrun, file_batch_count, batchsize, files,
                   b_startrow, index, end, fetched, batch_first, batch_fetched,
                   printed>>
    /\ UNCHANGED <<merge_vars, run_vars, fold_vars, two_vars>>

\* dump, lines 124-146: one turn of the loop, or its end
OnlyLoop ==
    /\ wpc = "only_loop"
    /\ IF startrow < maxid
       THEN /\ end' = startrow + batchsize
            /\ executed' = Append(executed, <<"query", startrow, end'>>)
            /\ fetched' = Append(fetched, <<startrow, end'>>)
            /\ startrow' = end'
            /\ wpc' = wpc
       ELSE /\ wpc' = "done"
            /\ UNCHANGED <<end, executed, fetched, startrow>>
    /\ UNCHANGED <<table, page, dryrun, file_batch_count, batchsize, files, maxid,
                   b_startrow, index, werr, batch_first, batch_fetched, printed>>
    /\ UNCHANGED <<merge_vars, run_vars, fold_vars, two_vars>>

\* dump, line 145: run_with_no_output fails, with maxtries = 1
OnlyQueryFails ==
    /\ wpc = "only_loop"
    /\ startrow < maxid
    /\ end' = startrow + batchsize
    /\ executed' = Append(executed, <<"query", startrow, end'>>)
    /\ wpc' = "raised"
    /\ werr' = "BackupError"
    /\ UNCHANGED <<table, page, dryrun, file_batch_count, batchsize, files, maxid,
                   startrow, b_startrow, index, fetched, batch_first,
                   batch_fetched, printed>>
    /\ UNCHANGED <<merge_vars, run_vars, fold_vars, two_vars>>

SpecDumpOnly == OnlyInit /\ [][OnlyGetMaxId \/ OnlyLoop \/ OnlyQueryFails]_vars

\* The cursor of dump_watchlist_only.py runs as C12 has it.
OnlyCursorAdvancesBySpan ==
    /\ []RangesContiguous
    /\ [][/\ (startrow = None /\ startrow' # None) => startrow' = 1
          /\ (startrow # None /\ startrow' # startrow) =>
                 startrow' = startrow + batchsize]_vars

\* ------------------------------------------------------------------------
\* run_without_output
\*
\* Strings are sequences of code points here, and what the command writes to
\* its standard error is a sequence of bytes.

\* "unknown", the first value of error (line 127)
Unknown == <<117, 110, 107, 110, 111, 119, 110>>

\* bytes.decode('utf-8') for one- and two-byte sequences: a byte below 128
\* is its own code point, a lead byte 194..223 with a continuation byte
\* 128..191 is one code point, and anything else is not UTF-8.
RECURSIVE decode(_)
decode(bytes) ==
    IF bytes = <<>> THEN Ret(<<>>)
    ELSE IF Head(bytes) < 128
    THEN LET rest == decode(Tail(bytes))
         IN  IF rest.exc # "none" THEN rest ELSE Ret(<<Head(bytes)>> \o rest.val)
    ELSE IF /\ Head(bytes) \in 194..223
            /\ Len(bytes) >= 2
            /\ bytes[2] \in 128..191
    THEN LET rest == decode(Tail(Tail(bytes)))
         IN  IF rest.exc # "none" THEN rest
             ELSE Ret(<<(Head(bytes) - 192) * 64 + (bytes[2] - 128)>> \o rest.val)
    ELSE Raise("UnicodeDecodeError")

\* What a command may leave behind: its return code (negative when a signal
\* ended it) and the bytes on its standard error.
ReturnCodes == {0, 1, -9}
StderrBytes == { <<>>, <<101>>, <<195, 169>>, <<255>> }

Commands == {"mysql", "sort"}

RunInit ==
    /\ MergeIdle
    /\ DumpIdle
    /\ FoldIdle
    /\ TwoIdle
    /\ command \in Commands
    /\ maxtries \in 0..MaxTries
    /\ tries = 0
    /\ success = FALSE
    /\ returncode = <<>>
    /\ error = Unknown
    /\ rpc = "loop"
    /\ rexc = "none"
    /\ message = <<>>
    /\ attempts = <<>>

\* line 129
RunLoop ==
    /\ rpc = "loop"
    /\ rpc' = IF ~success /\ tries < maxtries THEN "popen" ELSE "after"
    /\ UNCHANGED <<command, maxtries, tries, success, returncode, error, rexc,
                   message, attempts>>
    /\ UNCHANGED <<merge_vars, dump_vars, fold_vars, two_vars>>

\* lines 130-146: one attempt.  communicate() waits for the command to end,
\* so the inner loop runs once.
RunAttempt ==
    /\ rpc = "popen"
    /\ \E code \in ReturnCodes, bytes \in StderrBytes :
          LET decoded == decode(bytes)
          IN  /\ attempts' = Append(attempts, code)
              /\ IF decoded.exc # "none"
                 THEN /\ rpc' = "raised"
                      /\ rexc' = decoded.exc
                      /\ returncode' = <<>>
                      /\ UNCHANGED <<error, success, tries>>
                 ELSE /\ error' = decoded.val
                      /\ returncode' = <<code>>
                      /\ success' = (code = 0)
                      /\ tries' = tries + 1
                      /\ rpc' = "loop"
                      /\ rexc' = rexc
    /\ UNCHANGED <<command, maxtries, message>>
    /\ UNCHANGED <<merge_vars, dump_vars, fold_vars, two_vars>>

\* lines 147-151.  With maxtries = 0 the loop never ran and returncode is
\* not bound when the message is built.
RunAfter ==
    /\ rpc = "after"
    /\ IF success
       THEN rpc' = "returned" /\ UNCHANGED <<rexc, message>>
       ELSE /\ rpc' = "raised"
            /\ IF returncode = <<>>
               THEN rexc' = "UnboundLocalError" /\ message' = message
               ELSE /\ rexc' = "BackupError"
                    /\ message' = << [command |-> command,
                                      returncode |-> returncode[1],
                                      error |-> error] >>
    /\ UNCHANGED <<command, maxtries, tries, success, returncode, error, attempts>>
    /\ UNCHANGED <<merge_vars, dump_vars, fold_vars, two_vars>>

run_without_output == RunLoop \/ RunAttempt \/ RunAfter

SpecRun == RunInit /\ [][run_without_output]_vars

\* Every attempt so far returned a code that is not 0, and there were
\* maxtries of them.
AllAttemptsFailed ==
    /\ Len(attempts) = maxtries
    /\ \A i \in 1..Len(attempts) : attempts[i] # 0

RunEnded == rpc \in {"returned", "raised"}

\* What C15 says of a call with maxtries >= 1.
RetryContract ==
    /\ Len(attempts) <= maxtries
    /\ \A i \in 1..(Len(attempts) - 1) : attempts[i] # 0
    /\ RunEnded =>
           /\ AllAttemptsFailed =>
                  /\ rpc = "raised"
                  /\ rexc = "BackupError"
                  /\ Len(message) = 1
                  /\ message[1].command = command
                  /\ message[1].error = error
                  /\ message[1].returncode = attempts[Len(attempts)]
           /\ ~AllAttemptsFailed =>
                  /\ rpc = "returned"
                  /\ success
                  /\ attempts[Len(attempts)] = 0

\* C15: run_without_output with maxtries >= 1 runs the command at most
\* maxtries times, stops at the first attempt that returns 0 and then returns
\* success, and raises BackupError, with the command and the error output in
\* it, if and only if all maxtries attempts returned a code that is not 0.
RetriesThenBackupError == maxtries >= 1 => RetryContract

\* The same for the calls in which every error output was UTF-8.
RetriesThenBackupErrorOfDecodable ==
    (maxtries >= 1 /\ rexc # "UnicodeDecodeError") => RetryContract

\* ------------------------------------------------------------------------
\* do_merge as a function of its two inputs, and the folding of three runs.
\* The output of one do_merge is an input of the next, as in do_main of
\* merge.py.

\* The lines of a file that were not read yet, after one more readline.
rest_after(lines) == IF lines = <<>> THEN <<>> ELSE Tail(lines)

\* lines 221-223 and 224-226: write the line in hand and the lines after it,
\* up to the first empty one
RECURSIVE drain(_, _)
drain(line, unread) ==
    IF line = <<>> THEN <<>>
    ELSE <<line>> \o drain(readline(unread, 0), rest_after(unread))

\* lines 206-226, with the current record of each input, the lines of each
\* not read yet, and what was written so far
RECURSIVE merge_loop(_, _, _, _, _, _, _, _)
merge_loop(ik, sk, sm, have_now, have_unread, to_merge_now, to_merge_unread, written) ==
    IF have_now = EOF_FIELDS \/ to_merge_now = EOF_FIELDS
    THEN Ret(written \o drain(Join(have_now), have_unread)
                     \o drain(Join(to_merge_now), to_merge_unread))
    ELSE LET r == compare_fields(ik, sk, have_now, to_merge_now)
             s == sum_fields(sm, have_now, to_merge_now)
         IN  IF r.exc # "none" THEN Raise(r.exc)
             ELSE IF r.val = 0
             THEN IF s.exc # "none" THEN Raise(s.exc)
                  ELSE merge_loop(ik, sk, sm, s.val, have_unread,
                                  Split(readline(to_merge_unread, 0)),
                                  rest_after(to_merge_unread), written)
             ELSE IF r.val < 0
             THEN merge_loop(ik, sk, sm, Split(readline(have_unread, 0)),
                             rest_after(have_unread), to_merge_now,
                             to_merge_unread, Append(written, Join(have_now)))
             ELSE merge_loop(ik, sk, sm, have_now, have_unread,
                             Split(readline(to_merge_unread, 0)),
                             rest_after(to_merge_unread),
                             Append(written, Join(to_merge_now)))

\* do_merge(have, to_merge, output): the lines written, or the exception
merge_files(ik, sk, sm, have, to_merge) ==
    merge_loop(ik, sk, sm, Split(readline(have, 0)), rest_after(have),
               Split(readline(to_merge, 0)), rest_after(to_merge), <<>>)

\* do_merge on the result of an earlier do_merge, on either side
merge_results(ik, sk, sm, have, to_merge) ==
    IF have.exc # "none" THEN have
    ELSE IF to_merge.exc # "none" THEN to_merge
    ELSE merge_files(ik, sk, sm, have.val, to_merge.val)

\* merge_files is what the steps of do_merge compute.
MergeFilesIsDoMerge ==
    LET m == merge_files(intkeys, strkeys, sums, have_file, to_merge_file)
    IN  /\ pc = "returned" => (m.exc = "none" /\ m.val = output)
        /\ pc \in {"raised", "exited"} => m.exc = exc

FoldInit ==
    /\ DumpIdle
    /\ RunIdle
    /\ TwoIdle
    /\ \E roles \in MergeRoles :
          /\ intkeys = roles.intkeys
          /\ strkeys = roles.strkeys
          /\ sums = roles.sums
          /\ p1 \in RunsOf(roles)
          /\ p2 \in RunsOf(roles)
          /\ p3 \in RunsOf(roles)
    /\ have_file = <<>>
    /\ to_merge_file = <<>>
    /\ have_pos = 0
    /\ to_merge_pos = 0
    /\ output = <<>>
    /\ have_fields = <<>>
    /\ to_merge_fields = <<>>
    /\ have_line = <<>>
    /\ to_merge_line = <<>>
    /\ result = 0
    /\ pc = "idle"
    /\ exc = "none"
    /\ left_fold = <<>>
    /\ right_fold = <<>>
    /\ fpc = "start"

FoldBothWays ==
    /\ fpc = "start"
    /\ left_fold' = merge_results(intkeys, strkeys, sums,
                                  merge_files(intkeys, strkeys, sums, p1, p2), Ret(p3))
    /\ right_fold' = merge_results(intkeys, strkeys, sums,
                                   Ret(p1), merge_files(intkeys, strkeys, sums, p2, p3))
    /\ fpc' = "done"
    /\ UNCHANGED <<p1, p2, p3>>
    /\ UNCHANGED <<merge_vars, dump_vars, run_vars, two_vars>>

SpecFold == FoldInit /\ [][FoldBothWays]_vars

\* The partitions are key-grouped, of one field count, and their sums parse.
FoldablePartitions ==
    /\ \A p \in {p1, p2, p3} :
           /\ KeyGrouped(RecordsIn(p))
           /\ \A i \in 1..Len(p) : SumsParse(Split(p[i]))
    /\ \A p, q \in {p1, p2, p3} :
           \A i \in 1..Len(p), j \in 1..Len(q) : Len(Split(p[i])) = Len(Split(q[j]))

\* Folding three sorted, key-grouped partitions by do_merge gives the same
\* run whichever two are merged first.
MergeIsAssociative ==
    (fpc = "done" /\ FoldablePartitions) =>
        /\ left_fold.exc = "none"
        /\ right_fold.exc = "none"
        /\ left_fold.val = right_fold.val

\* ------------------------------------------------------------------------
\* Two runs of the script at once, for the same wiki and with the same temp
\* directory: dump_watchlist of each, a statement at a time, in any order.
\* The paths are made from the temp directory and the name of the wiki
\* (lines 301, 314, 346-357, 456), so the two runs have the same files; the
\* table, the batch size and the batch count (do_main, line 459) are the same
\* for both.  The commands succeed when they are run; a missing file stops
\* shutil.move and os.unlink with FileNotFoundError, and gzip -dc of a
\* missing file gives the merge an empty input.
\*
\* inst[i].log is what run i did, or printed if it is a dry run: its queries
\* and merges in their order.  inst[i].delivered is the accumulator it moved
\* to the output path.

Instances == {1, 2}

\* The tables of the two runs have at most this many rows.
TwoMaxId == 3

\* The watchlist tables of the two runs: the rows all watch one title, or
\* two titles in turn.
TwoTables ==
    UNION { { [r \in 1..n |-> <<2, S("b")>>],
              [r \in 1..n |-> IF r % 2 = 1 THEN <<2, S("b")>> ELSE <<10, S("a")>>] } :
            n \in 0..TwoMaxId }

StartOf(dry) ==
    [dryrun |-> dry, maxid |-> None, startrow |-> None, b_startrow |-> None,
     index |-> 0, end |-> 0, wpc |-> "get_max_id", werr |-> "none",
     fetched |-> <<>>, log |-> <<>>, delivered |-> <<>>]

TwoInit ==
    /\ MergeIdle
    /\ RunIdle
    /\ FoldIdle
    /\ table \in TwoTables
    /\ page = {}
    /\ dryrun = FALSE
    /\ file_batch_count \in 1..MaxCount
    /\ batchsize \in 1..MaxSpan
    /\ files = InitialFiles(FALSE)
    /\ maxid = None
    /\ startrow = None
    /\ b_startrow = None
    /\ index = 0
    /\ end = 0
    /\ wpc = "idle"
    /\ werr = "none"
    /\ fetched = <<>>
    /\ batch_first = 0
    /\ batch_fetched = 0
    /\ executed = <<>>
    /\ printed = <<>>
    /\ \E dry \in BOOLEAN : inst = [i \in Instances |-> StartOf(i = 1 /\ dry)]

\* Run i goes on as r, with the temp directory as fs.
Goes(i, r, fs) ==
    /\ inst' = [inst EXCEPT ![i] = r]
    /\ files' = fs
    /\ UNCHANGED <<table, page, dryrun, file_batch_count, batchsize, maxid,
                   startrow, b_startrow, index, end, wpc, werr, fetched,
                   batch_first, batch_fetched, executed, printed>>
    /\ UNCHANGED <<merge_vars, run_vars, fold_vars>>

\* Run i ends with FileNotFoundError.
NotFound(i) ==
    Goes(i, [inst[i] EXCEPT !.wpc = "raised", !.werr = "FileNotFoundError"], files)

\* dump_watchlist, lines 337-343
TwoGetMaxId(i) ==
    /\ inst[i].wpc = "get_max_id"
    /\ LET m == get_max_id(table)
       IN  Goes(i, [inst[i] EXCEPT !.maxid = m,
                                   !.wpc = IF m = None THEN "exited" ELSE "create_all",
                                   !.werr = IF m = None THEN "SystemExit" ELSE "none"],
                files)

\* dump_watchlist, lines 346-359
TwoCreateAll(i) ==
    /\ inst[i].wpc = "create_all"
    /\ Goes(i, [inst[i] EXCEPT !.startrow = 1, !.wpc = "top_loop"],
            IF inst[i].dryrun THEN files
            ELSE create_empty_file(files, "all_merge_into"))

\* dump_watchlist, lines 360-365
TwoTopLoop(i) ==
    /\ inst[i].wpc = "top_loop"
    /\ IF inst[i].startrow # None /\ inst[i].startrow < inst[i].maxid
       THEN Goes(i, [inst[i] EXCEPT !.b_startrow = inst[i].startrow,
                                    !.wpc = "batch_enter"], files)
       ELSE Goes(i, [inst[i] EXCEPT !.wpc = "finish"], files)

\* dump_merge_batch without the create_empty_file of lines 298-299: a batch
\* starts from what the batch before it left.  OnlyTheOtherRunInterferes fails
\* with it.
TwoBatchEnter_keeps_batch(i) ==
    /\ inst[i].wpc = "batch_enter"
    /\ IF inst[i].b_startrow >= inst[i].maxid \/ 1 >= file_batch_count
       THEN Goes(i, [inst[i] EXCEPT !.index = 1, !.startrow = None,
                                    !.wpc = "batch_returned"], files)
       ELSE Goes(i, [inst[i] EXCEPT !.index = 1, !.wpc = "batch_loop"], files)

\* dump_merge_batch, lines 294-305
TwoBatchEnter(i) ==
    /\ inst[i].wpc = "batch_enter"
    /\ LET fs == IF inst[i].dryrun THEN files
                 ELSE create_empty_file(files, "batch_merge_into")
       IN  IF inst[i].b_startrow >= inst[i].maxid \/ 1 >= file_batch_count
           THEN Goes(i, [inst[i] EXCEPT !.index = 1, !.startrow = None,
                                        !.wpc = "batch_returned"], fs)
           ELSE Goes(i, [inst[i] EXCEPT !.index = 1, !.wpc = "batch_loop"], fs)

\* dump_merge_batch, line 307
TwoBatchLoop(i) ==
    /\ inst[i].wpc = "batch_loop"
    /\ Goes(i, [inst[i] EXCEPT !.wpc =
                    IF inst[i].b_startrow < inst[i].maxid
                       /\ inst[i].index < file_batch_count
                    THEN "query" ELSE "batch_exit"], files)

\* dump_merge_batch, lines 308-313
TwoQuery(i) ==
    /\ inst[i].wpc = "query"
    /\ LET stop == inst[i].b_startrow + batchsize
           r == [inst[i] EXCEPT !.end = stop,
                                !.log = Append(@, <<"query", inst[i].b_startrow, stop>>),
                                !.wpc = "batch_merge"]
       IN  IF inst[i].dryrun THEN Goes(i, r, files)
           ELSE Goes(i, [r EXCEPT !.fetched = Append(@, <<inst[i].b_startrow, stop>>)],
                     [files EXCEPT !["dumped"] =
                         File(select_count(table, inst[i].b_startrow, stop))])

\* dump_merge_batch, lines 314-317
TwoBatchMerge(i) ==
    /\ inst[i].wpc = "batch_merge"
    /\ Goes(i, [inst[i] EXCEPT
                    !.log = Append(@, <<"merge", "batch_merge_into", "dumped", "merged">>),
                    !.wpc = "batch_move"],
            IF inst[i].dryrun THEN files
            ELSE [files EXCEPT !["merged"] =
                     File(merge_command(files["batch_merge_into"].lines,
                                        files["dumped"].lines))])

\* dump_merge_batch with "index += 1" of line 322 under the "if not dryrun"
\* of line 318: a dry run does not count its partitions.
\* DryRunDecidesAsRealRun fails with it.
TwoBatchMove_dry_keeps_index(i) ==
    /\ inst[i].wpc = "batch_move"
    /\ IF inst[i].dryrun
       THEN Goes(i, [inst[i] EXCEPT !.b_startrow = inst[i].end,
                                    !.wpc = "batch_loop"], files)
       ELSE IF ~files["merged"].exists THEN NotFound(i)
       ELSE Goes(i, [inst[i] EXCEPT !.b_startrow = inst[i].end,
                                    !.index = @ + 1,
                                    !.wpc = "batch_loop"],
                 move(files, "merged", "batch_merge_into"))

\* dump_merge_batch, lines 318-322
TwoBatchMove(i) ==
    /\ inst[i].wpc = "batch_move"
    /\ LET r == [inst[i] EXCEPT !.b_startrow = inst[i].end,
                                !.index = @ + 1,
                                !.wpc = "batch_loop"]
       IN  IF inst[i].dryrun THEN Goes(i, r, files)
           ELSE IF ~files["merged"].exists THEN NotFound(i)
           ELSE Goes(i, r, move(files, "merged", "batch_merge_into"))

\* dump_merge_batch, lines 324-327
TwoBatchExit(i) ==
    /\ inst[i].wpc = "batch_exit"
    /\ LET r == [inst[i] EXCEPT !.startrow = inst[i].b_startrow,
                                !.wpc = "batch_returned"]
       IN  IF inst[i].dryrun THEN Goes(i, r, files)
           ELSE IF ~files["dumped"].exists THEN NotFound(i)
           ELSE Goes(i, r, unlink(files, "dumped"))

\* dump_watchlist, line 366
TwoBatchReturned(i) ==
    /\ inst[i].wpc = "batch_returned"
    /\ Goes(i, [inst[i] EXCEPT !.wpc =
                    IF inst[i].startrow # None THEN "top_merge" ELSE "top_loop"],
            files)

\* dump_watchlist, lines 367-371
TwoTopMerge(i) ==
    /\ inst[i].wpc = "top_merge"
    /\ Goes(i, [inst[i] EXCEPT
                    !.log = Append(@, <<"merge", "all_merge_into", "batch_merge_into",
                                        "merged">>),
                    !.wpc = "top_move"],
            IF inst[i].dryrun THEN files
            ELSE [files EXCEPT !["merged"] =
                     File(merge_command(files["all_merge_into"].lines,
                                        files["batch_merge_into"].lines))])

\* dump_watchlist, lines 372-373
TwoTopMove(i) ==
    /\ inst[i].wpc = "top_move"
    /\ LET r == [inst[i] EXCEPT !.wpc = "top_loop"]
       IN  IF inst[i].dryrun THEN Goes(i, r, files)
           ELSE IF ~files["merged"].exists THEN NotFound(i)
           ELSE Goes(i, r, move(files, "merged", "all_merge_into"))

\* dump_watchlist, lines 375-381
TwoFinish(i) ==
    /\ inst[i].wpc = "finish"
    /\ LET r == [inst[i] EXCEPT !.wpc = "done"]
       IN  IF inst[i].dryrun THEN Goes(i, r, files)
           ELSE IF ~files["all_merge_into"].exists THEN NotFound(i)
           ELSE Goes(i, [r EXCEPT !.delivered = files["all_merge_into"].lines],
                     move(files, "all_merge_into", "out"))

TwoNext ==
    \E i \in Instances :
        \/ TwoGetMaxId(i)
        \/ TwoCreateAll(i)
        \/ TwoTopLoop(i)
        \/ TwoBatchEnter(i)
        \/ TwoBatchLoop(i)
        \/ TwoQuery(i)
        \/ TwoBatchMerge(i)
        \/ TwoBatchMove(i)
        \/ TwoBatchExit(i)
        \/ TwoBatchReturned(i)
        \/ TwoTopMerge(i)
        \/ TwoTopMove(i)
        \/ TwoFinish(i)

SpecTwo == TwoInit /\ [][TwoNext]_vars

\* The accumulator run i delivered is sorted, has one record for a key, and
\* holds for every key the sum over the partitions run i fetched.
IsAggregate(i) ==
    /\ StrictlySorted(inst[i].delivered)
    /\ \A k \in WatchKeys :
           CountIn(inst[i].delivered, k) = FetchedTotal(inst[i].fetched, k)

\* Run i is a real run that has written to the temp directory.
HasWritten(i) ==
    ~inst[i].dryrun /\ inst[i].wpc \notin {"get_max_id", "create_all", "exited"}

\* Run i is done and what it delivered is not the aggregate of what it
\* fetched.
DeliveredOther(i) ==
    inst[i].wpc = "done" /\ ~inst[i].dryrun /\ ~IsAggregate(i)

\* C27: the two runs have their accumulators and their partition file in
\* common and nothing keeps one from writing between the steps of the other;
\* a run delivers something else than the aggregate of the partitions it
\* fetched only when the other run has written to the temp directory, and
\* there is an interleaving in which it does (InterferenceWitness).
OnlyTheOtherRunInterferes ==
    \A i \in Instances : DeliveredOther(i) => HasWritten(3 - i)

\* s is the beginning of t.
IsPrefix(s, t) == Len(s) <= Len(t) /\ SubSeq(t, 1, Len(s)) = s

\* Run 1 is a dry run and run 2 a real one, of the same table, batch size
\* and batch count.
DryAndReal == inst # <<>> /\ inst[1].dryrun /\ ~inst[2].dryrun

\* C28: the queries and merges a dry run prints are those a real run of the
\* same maxid, span and count executes, in the same order: at every moment
\* one of the two sequences is the beginning of the other, and when both runs
\* are done the sequences are the same and so are the cursors.
DryRunDecidesAsRealRun ==
    DryAndReal =>
        /\ inst[2].werr \in {"none", "SystemExit"}
        /\ IsPrefix(inst[1].log, inst[2].log) \/ IsPrefix(inst[2].log, inst[1].log)
        /\ (inst[1].wpc = "done" /\ inst[2].wpc = "done") =>
               /\ inst[1].log = inst[2].log
               /\ inst[1].startrow = inst[2].startrow
               /\ inst[1].maxid = inst[2].maxid

\* Both are done after two batches of one partition each: two queries, two
\* merges in the batches and two merges of the batches.
DryRunDecidesWitness ==
    /\ DryAndReal
    /\ inst[1].wpc = "done" /\ inst[2].wpc = "done"
    /\ file_batch_count = 2
    /\ Len(inst[1].log) = 6
    /\ Len(inst[2].fetched) = 2
    /\ inst[2].startrow = 3

\* Both runs ended without an error, each fetched every partition, and one
\* of them delivered something else than the aggregate of its partitions.
InterferenceWitness ==
    /\ \A i \in Instances : inst[i].wpc = "done" /\ ~inst[i].dryrun
    /\ \A i \in Instances : Len(inst[i].fetched) = 2
    /\ \E i \in Instances : ~IsAggregate(i)

====
